---- MODULE Spec2Model ----
(***************************************************************************)
(* A model of bq-orm: the predicate compiler (utils.ts buildWhereClause),  *)
(* the association registry, the query compiler and the result reassembler *)
(* (model.ts), the write operations and the query interface, run against a *)
(* small warehouse behind the gateway.                                     *)
(*                                                                         *)
(* The repository holds two revisions of model.ts: src/src/model.ts and    *)
(* the first file of src/unnamed/part_000.  The variable rev selects the   *)
(* one in use; operators that differ between them take it as a parameter.  *)
(*                                                                         *)
(* SQL text is kept as a sequence of tokens: a condition (column, operator *)
(* and its @param placeholders), a keyword or a parenthesis.  A parameter  *)
(* name param<N> is the number N.                                          *)
(***************************************************************************)
EXTENDS Integers, Sequences, FiniteSets, TLC

VARIABLES rev, freeTierMode, models, executedMigrations, migrationLog,
          associations, registered, attributes, tables, calls, last, running

vars == <<rev, freeTierMode, models, executedMigrations, migrationLog,
          associations, registered, attributes, tables, calls, last, running>>

\* running: the asynchronous calls in flight that have not settled, each at the
\* await it is suspended on; none in the specifications whose operations run
\* one at a time
NoneRunning == <<>>

Revisions == {"model_ts", "part_000"}

(***************************************************************************)
(* Bounds of the model.                                                    *)
(***************************************************************************)
MaxValue == 2
MaxLimit == 2
MaxOrders == 3
MaxRegs == 2
MaxRows == 2
MaxNestRows == 3

Values == 1..MaxValue

(***************************************************************************)
(* Generic helpers on sequences and maps.                                  *)
(***************************************************************************)
Range(s) == {s[i] : i \in DOMAIN s}

Contains(s, x) == \E i \in DOMAIN s : s[i] = x

RECURSIVE Flatten(_)
Flatten(ss) == IF ss = <<>> THEN <<>> ELSE Head(ss) \o Flatten(Tail(ss))

\* Array.prototype.join on token sequences: the parts separated by sep.
RECURSIVE JoinWith(_, _)
JoinWith(parts, sep) ==
  IF parts = <<>> THEN <<>>
  ELSE IF Len(parts) = 1 THEN parts[1]
  ELSE parts[1] \o sep \o JoinWith(Tail(parts), sep)

\* Object.assign(target, source) / { ...target, ...source }
Assign(target, source) == source @@ target

EmptyMap == <<>>

(***************************************************************************)
(* op.ts: the operator table.                                              *)
(***************************************************************************)
OpKeys == {"eq", "ne", "gt", "gte", "lt", "lte"}

Op(key) ==
  CASE key = "eq" -> "="
    [] key = "ne" -> "!="
    [] key = "gt" -> ">"
    [] key = "gte" -> ">="
    [] key = "lt" -> "<"
    [] key = "lte" -> "<="
    [] key = "like" -> "LIKE"
    [] key = "notLike" -> "NOT LIKE"
    [] key = "in" -> "IN"
    [] key = "notIn" -> "NOT IN"
    [] key = "between" -> "BETWEEN"
    [] key = "notBetween" -> "NOT BETWEEN"
    [] key = "is" -> "IS"
    [] key = "isNot" -> "IS NOT"
    [] key = "and" -> "AND"
    [] key = "or" -> "OR"
    [] key = "not" -> "NOT"
    [] key = "any" -> "ANY"
    [] key = "all" -> "ALL"
    [] key = "contains" -> "@>"
    [] key = "contained" -> "<@"
    [] key = "add" -> "+"
    [] OTHER -> ""

(***************************************************************************)
(* Tokens of SQL text.                                                     *)
(***************************************************************************)
Kw(s) == [k |-> "kw", kw |-> s, q |-> <<>>, col |-> "", op |-> "", ps |-> <<>>]

\* `col` op @param<ps[1]>    or    `col` IN (@param.., ..) when op = "IN";
\* q is the alias that qualifies the column, <<>> when it is bare
Cond(col, op, ps) == [k |-> "cond", kw |-> "", q |-> <<>>, col |-> col, op |-> op, ps |-> ps]

\* The @param placeholders of a fragment, in text order.
Placeholders(clause) == Flatten([i \in DOMAIN clause |-> clause[i].ps])

(***************************************************************************)
(* Filter trees.  A tree is the sequence of its entries (Object.entries);  *)
(* an entry has a key and a value: a scalar, an array, an operator map     *)
(* (the sequence of its <<key, value>> pairs) or, under and/or, an array   *)
(* of trees.  An option that may be absent is a record: set says whether   *)
(* the caller gave it, and the value is read only when it did.             *)
(***************************************************************************)
Where(tree) == [tree |-> tree, set |-> TRUE]
NoWhere == [tree |-> <<>>, set |-> FALSE]

Scalar(key, v) == [key |-> key, v |-> v, t |-> "scalar", vs |-> <<>>, ops |-> <<>>, subs |-> <<>>]
Arr(key, vs) == [key |-> key, v |-> 0, t |-> "array", vs |-> vs, ops |-> <<>>, subs |-> <<>>]
OpMap(key, ops) == [key |-> key, v |-> 0, t |-> "op", vs |-> <<>>, ops |-> ops, subs |-> <<>>]
Comb(key, subs) == [key |-> key, v |-> 0, t |-> "comb", vs |-> <<>>, ops |-> <<>>, subs |-> subs]

(***************************************************************************)
(* utils.ts buildWhereClause(where, params, paramIndex).  The params       *)
(* argument is never read.  Returns clause, params and nextIndex.          *)
(***************************************************************************)
RECURSIVE buildWhereClause(_, _)
RECURSIVE bwcEntries(_, _, _, _, _)
RECURSIVE bwcReduce(_, _, _)

\* value.map(v => { paramName = `param${paramIndex++}`; localParams[paramName] = v })
ArrayParams(vs, paramIndex) ==
  [n \in {paramIndex + i - 1 : i \in DOMAIN vs} |-> vs[n - paramIndex + 1]]

\* the placeholders of an array entry named from its last element to its first
ArrayNames_reversed(vs, paramIndex) == [i \in DOMAIN vs |-> paramIndex + Len(vs) - i]

\* value.map(v => `@param${paramIndex++}`): the placeholders of an array entry
ArrayNames(vs, paramIndex) == [i \in DOMAIN vs |-> paramIndex + i - 1]

\* a reduce that compiles every element at the index the array started with
bwcReduce_unthreaded(subs, j, acc) ==
  IF j > Len(subs) THEN acc
  ELSE LET r == buildWhereClause(Where(subs[j]), acc.indexAcc)
       IN bwcReduce(subs, j + 1,
            [indexAcc |-> acc.indexAcc,
             clauseAcc |-> Append(acc.clauseAcc, <<Kw("(")>> \o r.clause \o <<Kw(")")>>),
             paramsAcc |-> Assign(acc.paramsAcc, r.params)])

\* the reduce over the elements of an and/or array (lines 46-64)
bwcReduce(subs, j, acc) ==
  IF j > Len(subs) THEN acc
  ELSE LET r == buildWhereClause(Where(subs[j]), acc.indexAcc)
       IN bwcReduce(subs, j + 1,
            [indexAcc |-> r.nextIndex,
             clauseAcc |-> Append(acc.clauseAcc, <<Kw("(")>> \o r.clause \o <<Kw(")")>>),
             paramsAcc |-> Assign(acc.paramsAcc, r.params)])

\* the for loop over Object.entries(where) (lines 44-93)
bwcEntries(where, i, paramIndex, clauses, localParams) ==
  IF i > Len(where)
  THEN [clause |-> JoinWith(clauses, <<Kw("AND")>>),
        params |-> localParams,
        nextIndex |-> paramIndex]
  ELSE LET e == where[i] IN
    CASE e.key \in {"and", "or"} ->
           LET sub == bwcReduce(e.subs, 1,
                        [indexAcc |-> paramIndex, clauseAcc |-> <<>>, paramsAcc |-> EmptyMap])
           IN bwcEntries(where, i + 1, sub.indexAcc,
                Append(clauses, JoinWith(sub.clauseAcc, <<Kw(Op(e.key))>>)),
                Assign(localParams, sub.paramsAcc))
      [] e.key \notin {"and", "or"} /\ e.t = "array" ->
           bwcEntries(where, i + 1, paramIndex + Len(e.vs),
             Append(clauses, <<Cond(e.key, "IN", ArrayNames(e.vs, paramIndex))>>),
             Assign(localParams, ArrayParams(e.vs, paramIndex)))
      [] e.key \notin {"and", "or"} /\ e.t = "op" ->
           \* only Object.keys(value)[0] is read
           LET opKey == IF e.ops = <<>> THEN "undefined" ELSE e.ops[1][1]
               opVal == IF e.ops = <<>> THEN 0 - 1 ELSE e.ops[1][2]
               sqlOp == IF Op(opKey) # "" THEN Op(opKey) ELSE "="
           IN bwcEntries(where, i + 1, paramIndex + 1,
                Append(clauses, <<Cond(e.key, sqlOp, <<paramIndex>>)>>),
                Assign(localParams, (paramIndex :> opVal)))
      [] OTHER ->
           bwcEntries(where, i + 1, paramIndex + 1,
             Append(clauses, <<Cond(e.key, "=", <<paramIndex>>)>>),
             Assign(localParams, (paramIndex :> e.v)))

buildWhereClause(where, paramIndex) ==
  IF ~where.set
  THEN [clause |-> <<>>, params |-> EmptyMap, nextIndex |-> paramIndex]
  ELSE bwcEntries(where.tree, 1, paramIndex, <<>>, EmptyMap)

(***************************************************************************)
(* Names.  An identifier is the sequence of its underscore-free segments,  *)
(* so that `${alias}_${field}` is the concatenation alias \o field.        *)
(***************************************************************************)
Col(as, field) == as \o field

IsPrefix(p, s) == Len(p) <= Len(s) /\ SubSeq(s, 1, Len(p)) = p

\* JavaScript null and undefined as values of a row or an object field
NULL == 0 - 2
UNDEFINED == 0 - 1

IsNullish(v) == v = NULL \/ v = UNDEFINED

\* row[key]
Get(row, key) == IF key \in DOMAIN row THEN row[key] ELSE UNDEFINED

(***************************************************************************)
(* Entities: classes that extend Model and were initialised with           *)
(* Model.init(attributes, {orm}) (no tableName, no primaryKey option).     *)
(***************************************************************************)
Entities == {"User", "Order", "Tag", "UserTag"}

\* this.name.toLowerCase()
LowerName(e) ==
  CASE e = "User" -> <<"user">>
    [] e = "Order" -> <<"order">>
    [] e = "Tag" -> <<"tag">>
    [] e = "UserTag" -> <<"usertag">>
    [] e = "DynamicModel" -> <<"dynamicmodel">>

\* `${target.name.toLowerCase()}s`
PluralName(e) ==
  CASE e = "User" -> <<"users">>
    [] e = "Order" -> <<"orders">>
    [] e = "Tag" -> <<"tags">>
    [] e = "UserTag" -> <<"usertags">>

\* `${name.toLowerCase()}Id`
IdName(e) ==
  CASE e = "User" -> <<"userId">>
    [] e = "Order" -> <<"orderId">>
    [] e = "Tag" -> <<"tagId">>
    [] e = "UserTag" -> <<"usertagId">>

\* an attribute descriptor of type INT64 under its key; defaultValue is UNDEFINED
\* when none was declared
Attr(name, allowNull, defaultValue, pk) ==
  [name |-> name, allowNull |-> allowNull, defaultValue |-> defaultValue,
   primaryKey |-> pk, type |-> "INT64"]

\* DataTypes.STRING(options): the descriptor with type STRING
AsString(attr) == [attr EXCEPT !.type = "STRING"]

\* DataTypes.INTEGER(): { type: "INT64", allowNull: true }
INTEGER(name) == Attr(name, TRUE, UNDEFINED, FALSE)

\* the attributes handed to Model.init, in Object.keys order
InitAttributes(e) ==
  CASE e = "User" -> <<Attr(<<"id">>, FALSE, UNDEFINED, TRUE),
                       AsString(Attr(<<"name">>, FALSE, UNDEFINED, FALSE)),
                       Attr(<<"level">>, TRUE, 1, FALSE)>>
    [] e = "Order" -> <<Attr(<<"id">>, FALSE, UNDEFINED, TRUE),
                        Attr(<<"userId">>, TRUE, UNDEFINED, FALSE),
                        Attr(<<"amount">>, TRUE, UNDEFINED, FALSE)>>
    [] e = "Tag" -> <<Attr(<<"id">>, FALSE, UNDEFINED, TRUE),
                      AsString(Attr(<<"label">>, TRUE, UNDEFINED, FALSE))>>
    [] e = "UserTag" -> <<Attr(<<"userId">>, TRUE, UNDEFINED, FALSE),
                          Attr(<<"tagId">>, TRUE, UNDEFINED, FALSE)>>

\* Model.init: tableName = options.tableName || this.name.toLowerCase()
TableName(e) == LowerName(e)

\* Model.init: primaryKey = options.primaryKey || first attribute flagged primaryKey || "id"
PrimaryKey(e) ==
  LET a == InitAttributes(e)
      flagged == {i \in DOMAIN a : a[i].primaryKey}
  IN IF flagged # {}
     THEN a[CHOOSE i \in flagged : \A j \in flagged : i <= j].name
     ELSE <<"id">>

\* the options of Model.init and of BigQueryORM.define; <<>> is "not given"
ModelOptions(tableName, primaryKey) == [primaryKey |-> primaryKey, tableName |-> tableName]

\* Object.keys(attributes).find((key) => attributes[key].primaryKey)
FlaggedKey(attrs) ==
  LET flagged == {i \in DOMAIN attrs : attrs[i].primaryKey}
  IN IF flagged # {}
     THEN attrs[CHOOSE i \in flagged : \A j \in flagged : i <= j].name
     ELSE <<>>

\* Model.init(attributes, options) run on the class named className: the
\* static fields it assigns on that class, this.name being the class's name
init(className, attrs, options) ==
  [attributes |-> attrs,
   name |-> className,
   primaryKey |-> IF options.primaryKey # <<>> THEN options.primaryKey
                  ELSE IF FlaggedKey(attrs) # <<>> THEN FlaggedKey(attrs)
                  ELSE <<"id">>,
   tableName |-> IF options.tableName # <<>> THEN options.tableName
                 ELSE LowerName(className)]

\* BigQueryORM.define(name, attributes, options): the class it declares is
\* `class DynamicModel extends Model {}`, whatever name is; name only keys
\* this.models
define(name, attrs, options) == init("DynamicModel", attrs, options)

\* the entities of the other specifications: `class E extends Model {}` and
\* E.init(attributes, {orm})
InitModels == [e \in Entities |-> init(e, InitAttributes(e), ModelOptions(<<>>, <<>>))]

\* Object.keys(model.attributes)
AttrNames(e) == [i \in DOMAIN attributes[e] |-> attributes[e][i].name]

(***************************************************************************)
(* Association registry.  Model.associations is one static object, created *)
(* once on the abstract class Model (model.ts line 70); Model.init assigns *)
(* orm, attributes, tableName and primaryKey on the subclass, and nothing  *)
(* assigns associations there, so this.associations of every subclass      *)
(* resolves to that one object.                                            *)
(***************************************************************************)
Association(type, target, foreignKey, otherKey, as, through) ==
  [target |-> target, as |-> as, type |-> type,
   foreignKey |-> foreignKey, otherKey |-> otherKey, through |-> through]

\* this.associations, read on entity e
AssociationsOf(e) == associations

\* an optional name: <<>> is "not given" (undefined and '' are both falsy)
OrElse(opt, default) == IF opt # <<>> THEN opt ELSE default

belongsToAssoc(src, target, fkOpt, asOpt) ==
  Association("belongsTo", target, OrElse(fkOpt, IdName(target)), <<>>,
              OrElse(asOpt, LowerName(target)), "")

hasOneAssoc(src, target, fkOpt, asOpt) ==
  Association("hasOne", target, OrElse(fkOpt, IdName(src)), <<>>,
              OrElse(asOpt, LowerName(target)), "")

hasManyAssoc(src, target, fkOpt, asOpt) ==
  Association("hasMany", target, OrElse(fkOpt, IdName(src)), <<>>,
              OrElse(asOpt, PluralName(target)), "")

belongsToManyAssoc(src, target, through, fkOpt, otherOpt, asOpt) ==
  Association("belongsToMany", target, OrElse(fkOpt, IdName(src)),
              OrElse(otherOpt, IdName(target)),
              OrElse(asOpt, PluralName(target)), through)

\* a registration call: the method, the class it is called on and its arguments
Reg(method, src, target, through, as) ==
  [target |-> target, as |-> as, otherKey |-> <<>>, through |-> through, src |-> src,
   method |-> method]

\* the same call with options.otherKey given
WithOtherKey(r, otherKey) == [r EXCEPT !.otherKey = otherKey]

AssocOfReg(r) ==
  CASE r.method = "belongsTo" -> belongsToAssoc(r.src, r.target, <<>>, r.as)
    [] r.method = "hasOne" -> hasOneAssoc(r.src, r.target, <<>>, r.as)
    [] r.method = "hasMany" -> hasManyAssoc(r.src, r.target, <<>>, r.as)
    [] r.method = "belongsToMany" ->
         belongsToManyAssoc(r.src, r.target, r.through, <<>>, r.otherKey, r.as)

\* this.associations[as] = {...}: the write lands in the object this.associations names
SetAssociation(assocs, src, a) == (a.as :> a) @@ assocs

HasAttr(attrs, name) == \E i \in DOMAIN attrs : attrs[i].name = name

\* a backfill that every registration method performs
BackfillForeignKey_any(attrs, r) ==
  LET a == AssocOfReg(r) IN
  IF ~HasAttr(attrs[r.src], a.foreignKey)
  THEN [attrs EXCEPT ![r.src] = Append(@, INTEGER(a.foreignKey))]
  ELSE attrs

\* belongsTo: if (!this.attributes[foreignKey]) this.attributes[foreignKey] = INTEGER()
BackfillForeignKey(attrs, r) ==
  LET a == AssocOfReg(r) IN
  IF r.method = "belongsTo" /\ ~HasAttr(attrs[r.src], a.foreignKey)
  THEN [attrs EXCEPT ![r.src] = Append(@, INTEGER(a.foreignKey))]
  ELSE attrs

\* the aliases registered by calls on entity e, latest registration first
RECURSIVE RegisteredOn(_, _)
RegisteredOn(log, e) ==
  IF log = <<>> THEN EmptyMap
  ELSE LET r == log[Len(log)]
           rest == RegisteredOn(SubSeq(log, 1, Len(log) - 1), e)
       IN IF r.src = e THEN (AssocOfReg(r).as :> AssocOfReg(r)) @@ rest ELSE rest

RECURSIVE RegisterAll(_, _)
RegisterAll(assocs, log) ==
  IF log = <<>> THEN assocs
  ELSE RegisterAll(SetAssociation(assocs, log[1].src, AssocOfReg(log[1])), Tail(log))

RECURSIVE BackfillAll(_, _)
BackfillAll(attrs, log) ==
  IF log = <<>> THEN attrs
  ELSE BackfillAll(BackfillForeignKey(attrs, log[1]), Tail(log))

(***************************************************************************)
(* Find requests.                                                          *)
(***************************************************************************)
Attrs(names) == [set |-> TRUE, names |-> names]
NoAttrs == [set |-> FALSE, names |-> <<>>]

Include(model, as, where, required, attrs) ==
  [attributes |-> attrs, where |-> where, as |-> as, model |-> model,
   required |-> required]

\* limit and offset: 0 stands for "not given" (the code tests their truthiness)
FindOptions(attrs, where, include, limit, offset, distinct, raw) ==
  [attributes |-> attrs, where |-> where, include |-> include, limit |-> limit,
   offset |-> offset, distinct |-> distinct, raw |-> raw]

\* inc.as || inc.model.tableName
IncAlias(inc) == OrElse(inc.as, TableName(inc.model))

\* Object.values(this.associations).find(a => a.as === as && a.target === inc.model)
FindAssoc(e, inc) ==
  LET m == AssociationsOf(e)
      hits == {k \in DOMAIN m : m[k].as = IncAlias(inc) /\ m[k].target = inc.model}
  IN IF hits = {} THEN [found |-> FALSE, assoc |-> Association("", "", <<>>, <<>>, <<>>, "")]
     ELSE [found |-> TRUE, assoc |-> m[CHOOSE k \in hits : TRUE]]

\* Object.values(this.associations).find(a => a.as === as)
FindAssocByAlias(e, as) ==
  LET m == AssociationsOf(e)
      hits == {k \in DOMAIN m : m[k].as = as}
  IN IF hits = {} THEN [found |-> FALSE, assoc |-> Association("", "", <<>>, <<>>, <<>>, "")]
     ELSE [found |-> TRUE, assoc |-> m[CHOOSE k \in hits : TRUE]]

\* clause.replace(/`([^`]+)`/g, `\`${as}\`.$1`): every quoted column gets the alias
Prefixed(clause, as) ==
  [i \in DOMAIN clause |->
     IF clause[i].k = "cond" THEN [clause[i] EXCEPT !.q = as] ELSE clause[i]]

Join(type, table, as, lq, lcol, rq, rcol) ==
  [as |-> as, type |-> type, table |-> table,
   lq |-> lq, lcol |-> lcol, rq |-> rq, rcol |-> rcol]

JoinType(inc) == IF inc.required THEN "INNER JOIN" ELSE "LEFT OUTER JOIN"

\* ${as}_through
ThroughAlias(as) == as \o <<"through">>

\* the left column of the junction join: the two revisions differ
ThroughLeftCol(r, e, assoc) ==
  IF r = "model_ts" THEN PrimaryKey(e) ELSE assoc.foreignKey

\* the joins one include adds to the FROM clause
IncludeJoins(r, e, inc, assoc) ==
  LET as == IncAlias(inc)
      mainAlias == TableName(e)
  IN CASE assoc.type = "belongsTo" ->
            <<Join(JoinType(inc), TableName(inc.model), as,
                   mainAlias, assoc.foreignKey, as, PrimaryKey(inc.model))>>
       [] assoc.type \in {"hasOne", "hasMany"} ->
            <<Join(JoinType(inc), TableName(inc.model), as,
                   mainAlias, PrimaryKey(e), as, assoc.foreignKey)>>
       [] assoc.type = "belongsToMany" ->
            <<Join(JoinType(inc), TableName(assoc.through), ThroughAlias(as),
                   mainAlias, ThroughLeftCol(r, e, assoc), ThroughAlias(as), assoc.foreignKey),
              Join(JoinType(inc), TableName(inc.model), as,
                   ThroughAlias(as), assoc.otherKey, as, PrimaryKey(inc.model))>>
       [] OTHER -> <<>>

\* if (!assoc.through || !assoc.otherKey)
MissingThrough(assoc) ==
  assoc.type = "belongsToMany" /\ (assoc.through = "" \/ assoc.otherKey = <<>>)

SelectItem(agg, q, col, as) == [q |-> q, col |-> col, as |-> as, agg |-> agg]

\* `\`${alias}\`.\`${field}\` AS \`${alias}_${field}\`` for each field
SelectColumns(alias, fields) ==
  [i \in DOMAIN fields |-> SelectItem("", alias, fields[i], Col(alias, fields[i]))]

\* the include loop of buildSelectQuery (lines 746-789) and of findAndCountAll
\* (lines 238-288): joins, prefixed include filters and merged params
RECURSIVE compileIncludes(_, _, _, _, _)
compileIncludes(r, e, incs, i, acc) ==
  IF i > Len(incs) \/ acc.error # "" THEN acc
  ELSE LET inc == incs[i]
           f == FindAssoc(e, inc)
       IN IF ~f.found
          THEN [acc EXCEPT !.error = "Association not found"]
          ELSE IF MissingThrough(f.assoc)
          THEN [acc EXCEPT !.error = "Through model and otherKey required for belongsToMany"]
          ELSE LET w == buildWhereClause(inc.where, 0)
               IN compileIncludes(r, e, incs, i + 1,
                    [params |-> IF inc.where.set THEN Assign(acc.params, w.params)
                                ELSE acc.params,
                     error |-> "",
                     joins |-> acc.joins \o IncludeJoins(r, e, inc, f.assoc),
                     whereClauses |-> IF inc.where.set
                                      THEN Append(acc.whereClauses, Prefixed(w.clause, IncAlias(inc)))
                                      ELSE acc.whereClauses])

NoIncludes == [params |-> EmptyMap, error |-> "", joins |-> <<>>, whereClauses |-> <<>>]

\* [mainWhere, ...whereClauses].filter(c => c)
NonEmpty(clauses) == SelectSeq(clauses, LAMBDA c : c # <<>>)

\* the attribute list selected for an include by buildSelectQuery
\* model.ts 818-819: inc.attributes || Object.keys(inc.model.attributes)
\* part_000 955-957: inc.attributes?.length ? inc.attributes : Object.keys(...)
IncSelectAttributes(r, inc) ==
  IF r = "model_ts"
  THEN (IF inc.attributes.set THEN inc.attributes.names ELSE AttrNames(inc.model))
  ELSE (IF inc.attributes.set /\ inc.attributes.names # <<>>
        THEN inc.attributes.names ELSE AttrNames(inc.model))

\* Array.from(new Set(xs)): first occurrences, in order
RECURSIVE Dedup(_)
Dedup(xs) ==
  IF xs = <<>> THEN <<>>
  ELSE LET front == Dedup(SubSeq(xs, 1, Len(xs) - 1))
       IN IF Contains(front, xs[Len(xs)]) THEN front ELSE Append(front, xs[Len(xs)])

\* the attribute list selected for an include by findAndCountAll
\* model.ts 282-283; part_000 277-279 puts the primary key first
IncCountAttributes(r, inc) ==
  IF r = "model_ts"
  THEN (IF inc.attributes.set THEN inc.attributes.names ELSE AttrNames(inc.model))
  ELSE (IF inc.attributes.set
        THEN Dedup(<<PrimaryKey(inc.model)>> \o inc.attributes.names)
        ELSE AttrNames(inc.model))

\* options.attributes || Object.keys(this.attributes)
MainAttributes(e, options) ==
  IF options.attributes.set THEN options.attributes.names ELSE AttrNames(e)

Select(distinct, select, from, as, joins, where, limit, offset) ==
  [where |-> where, as |-> as, limit |-> limit, offset |-> offset,
   distinct |-> distinct, joins |-> joins, select |-> select, from |-> from, kind |-> "SELECT"]

NoStatement == Select(FALSE, <<>>, <<>>, <<>>, <<>>, <<>>, 0, 0)

\* Model.buildSelectQuery(dataset, options, selectOverride); selectOverride is a
\* sequence of select items, <<>> when not given
buildSelectQuery(r, e, options, selectOverride) ==
  LET mainAlias == TableName(e)
      inc == compileIncludes(r, e, options.include, 1, NoIncludes)
      main == buildWhereClause(options.where, 0)
      mainWhere == IF options.where.set THEN main.clause ELSE <<>>
      params == IF options.where.set THEN Assign(inc.params, main.params) ELSE inc.params
      whereClause == JoinWith(NonEmpty(<<mainWhere>> \o inc.whereClauses), <<Kw("AND")>>)
      selectClause ==
        IF selectOverride # <<>> THEN selectOverride
        ELSE SelectColumns(mainAlias, MainAttributes(e, options))
             \o Flatten([i \in DOMAIN options.include |->
                  SelectColumns(IncAlias(options.include[i]),
                                IncSelectAttributes(r, options.include[i]))])
  IN IF inc.error # ""
     THEN [params |-> EmptyMap, error |-> inc.error, sql |-> NoStatement]
     ELSE [params |-> params,
           error |-> "",
           sql |-> Select(options.distinct, selectClause, TableName(e), mainAlias,
                          inc.joins, whereClause, options.limit, options.offset)]

\* the count sub-query's joins: model.ts 309-312 adds none, part_000 304-322
\* repeats the joins of every include
CountJoins(r, e, incs, dataJoins) == IF r = "model_ts" THEN <<>> ELSE dataJoins

\* the WHERE text of findAndCountAll: model.ts 298-300 puts the main filter
\* first and drops empty fragments; part_000 288-296 pushes every include
\* fragment, then the main fragment when it is not empty, and joins them all
\* whereClauses.length ? ` WHERE ${whereClauses.join(" AND ")}` : "": WHERE is
\* written whenever a clause was pushed, also when the joined text is empty
WhereOfPushed(whereClauses) ==
  IF whereClauses = <<>> THEN <<>>
  ELSE IF JoinWith(whereClauses, <<Kw("AND")>>) = <<>> THEN <<Kw("")>>
  ELSE JoinWith(whereClauses, <<Kw("AND")>>)

CountWhere(r, mainWhere, incClauses) ==
  IF r = "model_ts"
  THEN JoinWith(NonEmpty(<<mainWhere>> \o incClauses), <<Kw("AND")>>)
  ELSE WhereOfPushed(incClauses \o (IF mainWhere # <<>> THEN <<mainWhere>> ELSE <<>>))

\* total_count
TotalCount == <<"total", "count">>

\* COUNT(DISTINCT main.pk) AS total_count, or COUNT(*) AS total_count
CountSelect(e, options) ==
  IF options.distinct
  THEN <<SelectItem("COUNT_DISTINCT", TableName(e), PrimaryKey(e), TotalCount)>>
  ELSE <<SelectItem("COUNT_STAR", <<>>, <<>>, TotalCount)>>

With(count, data) == [kind |-> "WITH", count |-> count, data |-> data]

\* the statement Model.findAndCountAll compiles (lines 223-339)
compileFindAndCountAll(r, e, options) ==
  LET mainAlias == TableName(e)
      inc == compileIncludes(r, e, options.include, 1, NoIncludes)
      main == buildWhereClause(options.where, 0)
      mainWhere == IF options.where.set THEN main.clause ELSE <<>>
      params == IF options.where.set THEN Assign(inc.params, main.params) ELSE inc.params
      whereClause == CountWhere(r, mainWhere, inc.whereClauses)
      selectClause ==
        SelectColumns(mainAlias, MainAttributes(e, options))
        \o Flatten([i \in DOMAIN options.include |->
             SelectColumns(IncAlias(options.include[i]),
                           IncCountAttributes(r, options.include[i]))])
  IN IF inc.error # ""
     THEN [error |-> inc.error, sql |-> NoStatement, params |-> EmptyMap]
     ELSE [error |-> "",
           sql |-> With(Select(FALSE, CountSelect(e, options), TableName(e), mainAlias,
                               CountJoins(r, e, options.include, inc.joins),
                               whereClause, 0, 0),
                        Select(options.distinct, selectClause, TableName(e), mainAlias,
                               inc.joins, whereClause, options.limit, options.offset)),
           params |-> params]

(***************************************************************************)
(* The warehouse behind the gateway.  A table has its columns and its rows *)
(* (a row maps each column to a value, NULL for SQL NULL).  A SELECT is    *)
(* evaluated as SQL does: FROM, the joins in order, WHERE, the select list *)
(* or the aggregate, DISTINCT, OFFSET and LIMIT.  Rows come back in table  *)
(* order, the joined rows of one left row next to each other.              *)
(***************************************************************************)
Table(cols, rows) == [cols |-> cols, rows |-> rows]

NullRow(cols) == [c \in cols |-> NULL]

\* the aliases a statement binds, each with the table it names
Bindings(stmt) ==
  (stmt.as :> stmt.from) @@
  [a \in {stmt.joins[i].as : i \in DOMAIN stmt.joins} |->
     stmt.joins[CHOOSE i \in DOMAIN stmt.joins : stmt.joins[i].as = a].table]

\* the aliases under which a bare or qualified column resolves
Owners(db, binds, q, col) ==
  {a \in DOMAIN binds :
     /\ q = <<>> \/ q = a
     /\ binds[a] \in DOMAIN db
     /\ col \in db[binds[a]].cols}

Resolvable(db, binds, q, col) == Cardinality(Owners(db, binds, q, col)) = 1

ColValue(db, binds, env, q, col) ==
  env[CHOOSE a \in Owners(db, binds, q, col) : TRUE][col]

Compare(op, x, y) ==
  CASE op = "=" -> x = y
    [] op = "!=" -> x # y
    [] op = ">" -> x > y
    [] op = ">=" -> x >= y
    [] op = "<" -> x < y
    [] op = "<=" -> x <= y
    [] OTHER -> FALSE

\* one condition on one joined row; a comparison with NULL is not true
CondHolds(db, binds, env, params, c) ==
  LET x == ColValue(db, binds, env, c.q, <<c.col>>) IN
  /\ x # NULL
  /\ IF c.op = "IN"
     THEN \E i \in DOMAIN c.ps : params[c.ps[i]] # NULL /\ x = params[c.ps[i]]
     ELSE params[c.ps[1]] # NULL /\ Compare(c.op, x, params[c.ps[1]])

CondValid(db, binds, params, c) ==
  /\ Resolvable(db, binds, c.q, <<c.col>>)
  /\ \A i \in DOMAIN c.ps : c.ps[i] \in DOMAIN params
  /\ c.ps # <<>>

\* WHERE text: expr := term {OR term}, term := factor {AND factor},
\* factor := condition | ( expr ).  vals[i] is the value of condition toks[i].
\* The result is [ok, v, i]: well-formed so far, value, next token.
RECURSIVE parseExpr(_, _, _)
RECURSIVE parseExprRest(_, _, _)
RECURSIVE parseTerm(_, _, _)
RECURSIVE parseTermRest(_, _, _)
RECURSIVE parseFactor(_, _, _)

ParseFail == [i |-> 0, v |-> FALSE, ok |-> FALSE]

parseFactor(toks, i, vals) ==
  IF i > Len(toks) THEN ParseFail
  ELSE IF toks[i].k = "cond" THEN [i |-> i + 1, v |-> vals[i], ok |-> TRUE]
  ELSE IF toks[i].kw = "("
  THEN LET r == parseExpr(toks, i + 1, vals)
       IN IF r.ok /\ r.i <= Len(toks) /\ toks[r.i].kw = ")"
          THEN [r EXCEPT !.i = r.i + 1] ELSE ParseFail
  ELSE ParseFail

parseTermRest(toks, f, vals) ==
  IF f.ok /\ f.i <= Len(toks) /\ toks[f.i].kw = "AND"
  THEN LET g == parseFactor(toks, f.i + 1, vals)
       IN IF g.ok THEN parseTermRest(toks, [i |-> g.i, v |-> f.v /\ g.v, ok |-> TRUE], vals)
          ELSE ParseFail
  ELSE f

parseTerm(toks, i, vals) == parseTermRest(toks, parseFactor(toks, i, vals), vals)

parseExprRest(toks, f, vals) ==
  IF f.ok /\ f.i <= Len(toks) /\ toks[f.i].kw = "OR"
  THEN LET g == parseTerm(toks, f.i + 1, vals)
       IN IF g.ok THEN parseExprRest(toks, [i |-> g.i, v |-> f.v \/ g.v, ok |-> TRUE], vals)
          ELSE ParseFail
  ELSE f

parseExpr(toks, i, vals) == parseExprRest(toks, parseTerm(toks, i, vals), vals)

WhereValid(db, binds, params, toks) ==
  \/ toks = <<>>
  \/ /\ \A i \in DOMAIN toks : toks[i].k = "cond" => CondValid(db, binds, params, toks[i])
     /\ LET r == parseExpr(toks, 1, [i \in DOMAIN toks |-> TRUE]) IN r.ok /\ r.i = Len(toks) + 1

WhereHolds(db, binds, env, params, toks) ==
  \/ toks = <<>>
  \/ parseExpr(toks, 1, [i \in DOMAIN toks |->
                 toks[i].k = "cond" /\ CondHolds(db, binds, env, params, toks[i])]).v

JoinValid(db, binds, j) ==
  /\ j.table \in DOMAIN db
  /\ j.lq \in DOMAIN binds /\ binds[j.lq] \in DOMAIN db /\ j.lcol \in db[binds[j.lq]].cols
  /\ j.rq \in DOMAIN binds /\ j.rcol \in db[j.table].cols

\* the rows of env joined with the table of j
JoinOne(db, env, j) ==
  LET t == db[j.table]
      hits == SelectSeq(t.rows, LAMBDA row :
                env[j.lq][j.lcol] # NULL /\ env[j.lq][j.lcol] = row[j.rcol])
  IN IF hits = <<>>
     THEN (IF j.type = "INNER JOIN" THEN <<>> ELSE <<(j.as :> NullRow(t.cols)) @@ env>>)
     ELSE [i \in DOMAIN hits |-> (j.as :> hits[i]) @@ env]

RECURSIVE JoinAll(_, _, _, _)
JoinAll(db, envs, joins, i) ==
  IF i > Len(joins) THEN envs
  ELSE JoinAll(db, Flatten([k \in DOMAIN envs |-> JoinOne(db, envs[k], joins[i])]),
               joins, i + 1)

SelectValid(db, binds, stmt) ==
  \A i \in DOMAIN stmt.select :
    LET it == stmt.select[i] IN
    it.agg = "COUNT_STAR" \/ Resolvable(db, binds, it.q, it.col)

StatementValid(db, stmt, params) ==
  LET binds == Bindings(stmt) IN
  /\ stmt.from \in DOMAIN db
  /\ stmt.select # <<>>
  /\ \A i, j \in DOMAIN stmt.select : i # j => stmt.select[i].as # stmt.select[j].as
  /\ \A i, j \in DOMAIN stmt.joins : i # j => stmt.joins[i].as # stmt.joins[j].as
  /\ \A i \in DOMAIN stmt.joins : stmt.joins[i].as # stmt.as
  /\ \A i \in DOMAIN stmt.joins : JoinValid(db, binds, stmt.joins[i])
  /\ SelectValid(db, binds, stmt)
  /\ stmt.offset > 0 => stmt.limit > 0   \* OFFSET is written only after LIMIT
  /\ WhereValid(db, binds, params, stmt.where)

\* the joined rows that pass WHERE
Matching(db, stmt, params) ==
  LET binds == Bindings(stmt)
      t == db[stmt.from]
      base == [i \in DOMAIN t.rows |-> (stmt.as :> t.rows[i])]
      joined == JoinAll(db, base, stmt.joins, 1)
  IN SelectSeq(joined, LAMBDA env : WhereHolds(db, binds, env, params, stmt.where))

\* OFFSET and LIMIT (0: the clause is not in the text)
Page(rows, limit, offset) ==
  LET from == IF offset > Len(rows) THEN Len(rows) + 1 ELSE offset + 1
      rest == SubSeq(rows, from, Len(rows))
  IN IF limit > 0 /\ limit < Len(rows) - from + 1 THEN SubSeq(rest, 1, limit) ELSE rest

Project(stmt, env) ==
  [name \in {stmt.select[i].as : i \in DOMAIN stmt.select} |->
     LET it == stmt.select[CHOOSE i \in DOMAIN stmt.select : stmt.select[i].as = name]
     IN env[it.q][it.col]]

\* the rows an aggregate query runs over in the aggregate specification
MaxAggRows == 2

RECURSIVE Factorial(_)
Factorial(n) == IF n <= 1 THEN 1 ELSE n * Factorial(n - 1)

\* AVG is a FLOAT64: an average over at most MaxAggRows rows is written exactly
\* as a whole number of units of 1 / AvgUnit
AvgUnit == Factorial(MaxAggRows)

RECURSIVE SumOver(_)
SumOver(vs) == IF vs = <<>> THEN 0 ELSE Head(vs) + SumOver(Tail(vs))

\* the non-NULL values of a column over the joined rows
NonNullValues(envs, q, col) ==
  SelectSeq([i \in DOMAIN envs |-> envs[i][q][col]], LAMBDA v : v # NULL)

Aggregate(stmt, envs) ==
  LET it == stmt.select[1]
      vals == {envs[i][it.q][it.col] : i \in DOMAIN envs} \ {NULL}
  IN CASE it.agg = "COUNT_STAR" -> Len(envs)
       [] it.agg = "COUNT_DISTINCT" -> Cardinality(vals)
       [] it.agg = "MAX" -> IF vals = {} THEN NULL
                            ELSE CHOOSE v \in vals : \A w \in vals : w <= v
       [] it.agg = "MIN" -> IF vals = {} THEN NULL
                            ELSE CHOOSE v \in vals : \A w \in vals : v <= w
       [] it.agg = "SUM" -> IF vals = {} THEN NULL
                            ELSE SumOver(NonNullValues(envs, it.q, it.col))
       [] it.agg = "AVG" -> IF vals = {} THEN NULL
                            ELSE (SumOver(NonNullValues(envs, it.q, it.col)) * AvgUnit)
                                   \div Len(NonNullValues(envs, it.q, it.col))
       [] OTHER -> NULL

\* DISTINCT, then OFFSET and LIMIT
Paged(stmt, rows) ==
  Page(IF stmt.distinct THEN Dedup(rows) ELSE rows, stmt.limit, stmt.offset)

\* the rows of a valid SELECT whose joined rows passing WHERE are envs
SelectFrom(stmt, envs) ==
  IF stmt.select[1].agg # ""
  THEN <<(stmt.select[1].as :> Aggregate(stmt, envs))>>
  ELSE Paged(stmt, [i \in DOMAIN envs |-> Project(stmt, envs[i])])

SelectRows(db, stmt, params) == SelectFrom(stmt, Matching(db, stmt, params))

\* the SELECTs of a statement: count_query and data_query of a WITH, or itself
SubQueries(stmt) == IF stmt.kind = "WITH" THEN <<stmt.count, stmt.data>> ELSE <<stmt>>

\* WITH count_query AS (..), data_query AS (..)
\* SELECT data_query.*, (SELECT total_count FROM count_query) AS total_count FROM data_query
\* results: the rows of count_query and of data_query
WithRows(results) ==
  [i \in DOMAIN results[2] |-> (TotalCount :> results[1][1][TotalCount]) @@ results[2][i]]

QueryRows(stmt, results) == IF stmt.kind = "WITH" THEN WithRows(results) ELSE results[1]

\* bigquery.query({query, params}): [error, rows]
GatewayQuery(db, stmt, params) ==
  IF \A i \in DOMAIN SubQueries(stmt) : StatementValid(db, SubQueries(stmt)[i], params)
  THEN [error |-> "",
        rows |-> QueryRows(stmt, [i \in DOMAIN SubQueries(stmt) |->
                                    SelectRows(db, SubQueries(stmt)[i], params)])]
  ELSE [error |-> "invalidQuery", rows |-> <<>>]

(***************************************************************************)
(* Result reassembly.  An object is [fields, slots]: its own attribute     *)
(* values by name and, by include alias, a slot: an array of child         *)
(* objects, null, or one child object.                                     *)
(***************************************************************************)
Obj(fields, slots) == [fields |-> fields, slots |-> slots]

ArraySlot(items) == [t |-> "array", items |-> items, obj |-> EmptyMap]
NullSlot == [t |-> "null", items |-> <<>>, obj |-> EmptyMap]
ObjectSlot(obj) == [t |-> "object", items |-> <<>>, obj |-> obj]

\* every association kind taken for a collection
IsCollection_always(assoc) == TRUE

\* assoc.type === "hasMany" || assoc.type === "belongsToMany"
IsCollection(assoc) == assoc.type \in {"hasMany", "belongsToMany"}

\* without includes: every column whose name starts with `${tableName}_`,
\* under the rest of its name
FlatObject(e, row) ==
  LET keys == {k \in DOMAIN row : IsPrefix(TableName(e), k)}
      strip(k) == SubSeq(k, Len(TableName(e)) + 1, Len(k))
  IN Obj([f \in {strip(k) : k \in keys} |->
            row[CHOOSE k \in keys : strip(k) = f]], EmptyMap)

\* a new parent: its attributes from the row, and one empty slot per include
\* whose alias is registered
NewParent(e, row, includes) ==
  LET names == AttrNames(e)
      known == {i \in DOMAIN includes : FindAssocByAlias(e, IncAlias(includes[i])).found}
  IN Obj([f \in Range(names) |-> Get(row, Col(TableName(e), f))],
         [as \in {IncAlias(includes[i]) : i \in known} |->
            IF IsCollection(FindAssocByAlias(e, as).assoc)
            THEN ArraySlot(<<>>) ELSE NullSlot])

\* the fields copied into a child object
\* model.ts 913-915: every attribute of the included model
\* part_000 1053-1066: the requested attributes; the primary key only if requested
ChildFields(r, inc) ==
  IF r = "model_ts" THEN AttrNames(inc.model)
  ELSE IF inc.attributes.set
  THEN SelectSeq(Dedup(<<PrimaryKey(inc.model)>> \o inc.attributes.names),
                 LAMBDA f : ~(f = PrimaryKey(inc.model)
                              /\ ~Contains(inc.attributes.names, f)))
  ELSE AttrNames(inc.model)

ChildObject(r, inc, row) ==
  [f \in Range(ChildFields(r, inc)) |-> Get(row, Col(IncAlias(inc), f))]

\* parent[as].some(c => c[inc.model.primaryKey] === childPK)
HasChild(items, pk, childPK) ==
  \E i \in DOMAIN items : Get(items[i], pk) = childPK

\* the loop over the includes for one row (lines 904-926)
RECURSIVE attachChildren(_, _, _, _, _, _)
attachChildren(r, e, parent, row, includes, i) ==
  IF i > Len(includes) THEN parent
  ELSE LET inc == includes[i]
           as == IncAlias(inc)
           f == FindAssocByAlias(e, as)
           childPK == Get(row, Col(as, PrimaryKey(inc.model)))
           child == ChildObject(r, inc, row)
       IN IF ~f.found \/ IsNullish(childPK)
          THEN attachChildren(r, e, parent, row, includes, i + 1)
          ELSE IF IsCollection(f.assoc)
          THEN attachChildren(r, e,
                 IF HasChild(parent.slots[as].items, PrimaryKey(inc.model), childPK)
                 THEN parent
                 ELSE [parent EXCEPT !.slots[as] = ArraySlot(Append(@.items, child))],
                 row, includes, i + 1)
          ELSE attachChildren(r, e, [parent EXCEPT !.slots[as] = ObjectSlot(child)],
                              row, includes, i + 1)

\* a lookup that never finds the parent of a key
PosOf_none(parentMap, pk) == 0

\* parentMap: the parents in insertion order, each under its primary-key value
\* parentMap.get(parentPKValue): the position of the key, 0 when it is new
PosOf(parentMap, pk) ==
  IF \E i \in DOMAIN parentMap : parentMap[i].pk = pk
  THEN CHOOSE i \in DOMAIN parentMap : parentMap[i].pk = pk
  ELSE 0

\* the loop over the rows (lines 878-927)
RECURSIVE nestRows(_, _, _, _, _, _)
nestRows(r, e, parentMap, rows, k, includes) ==
  IF k > Len(rows) THEN parentMap
  ELSE LET row == rows[k]
           parentPKValue == Get(row, Col(TableName(e), PrimaryKey(e)))
           at == PosOf(parentMap, parentPKValue)
           parent == IF at = 0 THEN NewParent(e, row, includes) ELSE parentMap[at].obj
           filled == attachChildren(r, e, parent, row, includes, 1)
       IN IF IsNullish(parentPKValue)
          THEN nestRows(r, e, parentMap, rows, k + 1, includes)
          ELSE nestRows(r, e,
                 IF at = 0 THEN Append(parentMap, [pk |-> parentPKValue, obj |-> filled])
                 ELSE [parentMap EXCEPT ![at].obj = filled],
                 rows, k + 1, includes)

\* Model.nestAssociations(rows, includes)
nestAssociations(r, e, rows, includes) ==
  IF includes = <<>>
  THEN [i \in DOMAIN rows |-> FlatObject(e, rows[i])]
  ELSE LET parentMap == nestRows(r, e, <<>>, rows, 1, includes)
       IN [i \in DOMAIN parentMap |-> parentMap[i].obj]

(***************************************************************************)
(* Operations.  An operation starts when no call is pending (last.op is    *)
(* "idle"), runs to its end, and leaves in last what the caller gets: the  *)
(* error it rejected with or its result, and in calls the gateway calls it *)
(* made.  Settle hands that to the caller.                                 *)
(***************************************************************************)
Idle == [op |-> "idle", error |-> "", entity |-> "", input |-> <<>>, result |-> <<>>]

Outcome(op, e, input, error, result) ==
  [op |-> op, error |-> error, entity |-> e, input |-> input, result |-> result]

\* one gateway call: bigquery.query, bigquery.createQueryJob or table.insert
Call(api, sql, params) == [params |-> params, sql |-> sql, api |-> api]

\* what findAll makes of the gateway's answer g (lines 168-171)
Found(r, e, options, g) ==
  IF g.error # "" THEN [error |-> g.error, rows |-> <<>>, result |-> <<>>]
  ELSE [error |-> "", rows |-> g.rows,
        result |-> IF options.raw THEN g.rows
                   ELSE nestAssociations(r, e, g.rows, options.include)]

\* the query of a compiled statement c and what findAll makes of its rows
RunFind(r, e, options, c) == Found(r, e, options, GatewayQuery(tables, c.sql, c.params))

\* the step of a find operation: c is the compiled statement, error and result
\* what the operation hands back after the query
FindStep(op, e, input, c, error, result) ==
  /\ last.op = "idle"
  /\ IF c.error # ""
     THEN /\ calls' = <<>>
          /\ last' = Outcome(op, e, input, c.error, <<>>)
     ELSE /\ calls' = <<Call("query", c.sql, c.params)>>
          /\ last' = Outcome(op, e, input, error, result)
  /\ UNCHANGED <<running, rev, freeTierMode, models, executedMigrations, migrationLog,
               associations, registered, attributes, tables>>

findAllRan(op, e, input, c, f) == FindStep(op, e, input, c, f.error, f.result)

findAllCompiled(op, e, input, options, c) ==
  findAllRan(op, e, input, c, RunFind(rev, e, options, c))

\* Model.findAll(dataset, options)
findAll(op, e, input, options) ==
  findAllCompiled(op, e, input, options, buildSelectQuery(rev, e, options, <<>>))

FindAll(e, options) == findAll("findAll", e, options, options)

\* results[0] || null, as the sequence of at most one object
FirstOrNone(results) == IF results = <<>> THEN <<>> ELSE <<results[1]>>

findOneRan(e, input, c, f) == FindStep("findOne", e, input, c, f.error, FirstOrNone(f.result))

findOneCompiled(e, input, options, c) == findOneRan(e, input, c, RunFind(rev, e, options, c))

findOneLimited(e, input, options) ==
  findOneCompiled(e, input, options, buildSelectQuery(rev, e, options, <<>>))

\* Model.findOne: findAll with limit 1
FindOne(e, options) == findOneLimited(e, options, [options EXCEPT !.limit = 1])

\* rows[0]?.x || 0
FirstOrZero(rows, col) ==
  IF rows = <<>> THEN 0
  ELSE IF IsNullish(Get(rows[1], col)) THEN 0 ELSE Get(rows[1], col)

\* rows[0]?.x || null: null for no row and for every falsy value
FirstOrNull(rows, col) ==
  IF rows = <<>> THEN NULL
  ELSE IF IsNullish(Get(rows[1], col)) \/ Get(rows[1], col) = 0 THEN NULL
  ELSE Get(rows[1], col)

countRan(e, input, c, g) ==
  FindStep("count", e, input, c, g.error,
           IF g.error # "" THEN <<>> ELSE <<FirstOrZero(g.rows, <<"count">>)>>)

countCompiled(e, input, c) == countRan(e, input, c, GatewayQuery(tables, c.sql, c.params))

\* Model.count
Count(e, options) ==
  countCompiled(e, options,
    buildSelectQuery(rev, e, options,
      <<SelectItem("COUNT_DISTINCT", TableName(e), PrimaryKey(e), <<"count">>)>>))

findAndCountAllRan(e, input, c, f) ==
  FindStep("findAndCountAll", e, input, c, f.error,
           IF f.error # "" THEN <<>>
           ELSE <<[count |-> FirstOrZero(f.rows, TotalCount), rows |-> f.result]>>)

findAndCountAllCompiled(e, options, c) ==
  findAndCountAllRan(e, options, c, RunFind(rev, e, options, c))

\* Model.findAndCountAll: the result is [rows, count]
FindAndCountAll(e, options) ==
  findAndCountAllCompiled(e, options, compileFindAndCountAll(rev, e, options))

\* the caller takes the outcome of the finished operation
Settle ==
  /\ last.op # "idle"
  /\ last' = Idle
  /\ calls' = <<>>
  /\ UNCHANGED <<running, rev, freeTierMode, models, executedMigrations, migrationLog,
               associations, registered, attributes, tables>>

\* belongsTo / hasOne / hasMany / belongsToMany called on class r.src
Register(r) ==
  /\ last.op = "idle"
  /\ Len(registered) < MaxRegs
  /\ associations' = SetAssociation(associations, r.src, AssocOfReg(r))
  /\ attributes' = BackfillForeignKey(attributes, r)
  /\ registered' = Append(registered, r)
  /\ UNCHANGED <<running, rev, freeTierMode, models, executedMigrations, migrationLog,
               tables, calls, last>>

(***************************************************************************)
(* Data-changing statements.  An error is named by the fixed head of its   *)
(* message.  The parameters of an UPDATE are kept as their two parts: the  *)
(* names set_<field> and param<N> never coincide.                          *)
(***************************************************************************)
\* `col` = @set_<col>
SetParam(col) == [col |-> col, expr |-> "param", by |-> 0]
\* `col` = `col` + by
SetPlus(col, by) == [col |-> col, expr |-> "plus", by |-> by]

NoAlter == [col |-> <<>>, action |-> "", to |-> <<>>]

Statement(kind, table, set, where, values, alter) ==
  [set |-> set, where |-> where, table |-> table, kind |-> kind,
   values |-> values, alter |-> alter]

DmlParams(setValues, whereValues) == [set |-> setValues, where |-> whereValues]

\* ${whereClause || "TRUE"}
OrTrue(clause) == IF clause = <<>> THEN <<Kw("TRUE")>> ELSE clause

(***************************************************************************)
(* The warehouse behind the gateway: data-changing statements and          *)
(* table.insert.  The outcome is [error, tables, affected].                *)
(***************************************************************************)
Executed(error, db, affected) == [tables |-> db, error |-> error, affected |-> affected]

DmlWhereValid(db, stmt, params) ==
  \/ stmt.where = <<Kw("TRUE")>>
  \/ /\ stmt.where # <<>>
     /\ WhereValid(db, (stmt.table :> stmt.table), params.where, stmt.where)

DmlWhereHolds(db, stmt, params, row) ==
  \/ stmt.where = <<Kw("TRUE")>>
  \/ WhereHolds(db, (stmt.table :> stmt.table), (stmt.table :> row), params.where, stmt.where)

\* the row after the SET list, every right-hand side read from the old row
SetRow(stmt, params, row) ==
  [c \in DOMAIN row |->
     IF \E i \in DOMAIN stmt.set : stmt.set[i].col = c
     THEN LET s == stmt.set[CHOOSE i \in DOMAIN stmt.set : stmt.set[i].col = c]
          IN IF s.expr = "param" THEN params.set[c]
             ELSE IF row[c] = NULL THEN NULL ELSE row[c] + s.by
     ELSE row[c]]

UpdateValid(db, stmt, params) ==
  /\ stmt.table \in DOMAIN db
  /\ stmt.set # <<>>
  /\ \A i \in DOMAIN stmt.set :
       /\ stmt.set[i].col \in db[stmt.table].cols
       /\ stmt.set[i].expr = "param" => stmt.set[i].col \in DOMAIN params.set
       /\ \A j \in DOMAIN stmt.set : i # j => stmt.set[i].col # stmt.set[j].col
  /\ DmlWhereValid(db, stmt, params)

Hits(db, stmt, params) ==
  {i \in DOMAIN db[stmt.table].rows : DmlWhereHolds(db, stmt, params, db[stmt.table].rows[i])}

AlterTable(db, stmt) ==
  LET t == db[stmt.table]
      a == stmt.alter
      without(row, c) == [k \in DOMAIN row \ {c} |-> row[k]]
  IN CASE a.action = "ADD COLUMN" ->
            IF a.col \in t.cols THEN Executed("invalidQuery", db, 0)
            ELSE Executed("", [db EXCEPT ![stmt.table] =
                   Table(t.cols \cup {a.col},
                         [i \in DOMAIN t.rows |-> (a.col :> NULL) @@ t.rows[i]])], 0)
       [] a.action = "DROP COLUMN IF EXISTS" ->
            Executed("", [db EXCEPT ![stmt.table] =
                   Table(t.cols \ {a.col},
                         [i \in DOMAIN t.rows |-> without(t.rows[i], a.col)])], 0)
       [] a.action = "RENAME COLUMN" ->
            IF a.col \notin t.cols \/ a.to \in t.cols THEN Executed("invalidQuery", db, 0)
            ELSE Executed("", [db EXCEPT ![stmt.table] =
                   Table((t.cols \ {a.col}) \cup {a.to},
                         [i \in DOMAIN t.rows |->
                            (a.to :> t.rows[i][a.col]) @@ without(t.rows[i], a.col)])], 0)
       [] a.action = "ALTER COLUMN SET DATA TYPE" ->
            IF a.col \notin t.cols THEN Executed("invalidQuery", db, 0)
            ELSE Executed("", db, 0)
       [] OTHER -> Executed("", db, 0)   \* SET OPTIONS

\* a row as stored: every column of the table, NULL where no value was given
StoredRow(cols, rec) ==
  [c \in cols |-> IF c \in DOMAIN rec /\ rec[c] # UNDEFINED THEN rec[c] ELSE NULL]

Updated(db, stmt, params, hits) ==
  Executed("", [db EXCEPT ![stmt.table].rows =
                  [i \in DOMAIN @ |-> IF i \in hits THEN SetRow(stmt, params, @[i]) ELSE @[i]]],
           Cardinality(hits))

\* the positions of a sequence that are not in hits, ascending
Kept(rows, hits) == SelectSeq([i \in DOMAIN rows |-> i], LAMBDA i : i \notin hits)

Deleted(db, stmt, hits) ==
  Executed("", [db EXCEPT ![stmt.table].rows =
                  [k \in DOMAIN Kept(@, hits) |-> @[Kept(@, hits)[k]]]],
           Cardinality(hits))

\* bigquery.query / createQueryJob of a data-changing statement
GatewayExec(db, stmt, params) ==
  IF stmt.table \notin DOMAIN db THEN Executed("notFound", db, 0)
  ELSE
  CASE stmt.kind = "UPDATE" ->
         IF ~UpdateValid(db, stmt, params) THEN Executed("invalidQuery", db, 0)
         ELSE Updated(db, stmt, params, Hits(db, stmt, params))
    [] stmt.kind = "DELETE" ->
         IF ~DmlWhereValid(db, stmt, params) THEN Executed("invalidQuery", db, 0)
         ELSE Deleted(db, stmt, Hits(db, stmt, params))
    [] stmt.kind = "TRUNCATE" -> Executed("", [db EXCEPT ![stmt.table].rows = <<>>], 0)
    [] stmt.kind = "INSERT" ->
         IF DOMAIN stmt.values \subseteq db[stmt.table].cols
         THEN Executed("", [db EXCEPT ![stmt.table].rows =
                Append(@, StoredRow(db[stmt.table].cols, stmt.values))], 1)
         ELSE Executed("invalidQuery", db, 0)
    [] stmt.kind = "ALTER" -> AlterTable(db, stmt)
    [] OTHER -> Executed("invalidQuery", db, 0)

\* table.insert(rows): all rows or, when a row names an unknown column, none
TableInsert(db, table, recs) ==
  IF table \notin DOMAIN db THEN Executed("notFound", db, 0)
  ELSE IF \A i \in DOMAIN recs : DOMAIN recs[i] \subseteq db[table].cols
  THEN Executed("", [db EXCEPT ![table].rows =
         @ \o [i \in DOMAIN recs |-> StoredRow(db[table].cols, recs[i])]], Len(recs))
  ELSE Executed("insertError", db, 0)

(***************************************************************************)
(* Model write operations.  A record is the map of the fields it names.    *)
(* The outcome is [error, calls, tables, result].                          *)
(***************************************************************************)
Done(error, cs, db, result) ==
  [tables |-> db, calls |-> cs, error |-> error, result |-> result]

FreeTierError == "Free tier mode"
MissingFieldError == "Missing required field"

\* Model.resolveDefault: NOW and UUIDV4 stand for generated values; any other
\* default is the value itself
resolveDefault(value) == value

\* the loop over Object.entries(this.attributes) that fills one record;
\* validate is options.validate !== false (always true in create)
RECURSIVE fillRecord(_, _, _, _, _)
fillRecord(attrs, i, data, validate, filled) ==
  IF i > Len(attrs) THEN [error |-> "", filled |-> filled]
  ELSE LET a == attrs[i] IN
       IF a.name \in DOMAIN data
       THEN fillRecord(attrs, i + 1, data, validate, (a.name :> data[a.name]) @@ filled)
       ELSE IF a.defaultValue # UNDEFINED
       THEN fillRecord(attrs, i + 1, data, validate,
                       (a.name :> resolveDefault(a.defaultValue)) @@ filled)
       ELSE IF a.allowNull = FALSE /\ validate
       THEN [error |-> MissingFieldError, filled |-> filled]
       ELSE fillRecord(attrs, i + 1, data, validate, filled)

\* data.map(record => ...): stops at the first record that throws
RECURSIVE fillRecords(_, _, _, _, _)
fillRecords(attrs, data, i, validate, acc) ==
  IF i > Len(data) THEN [error |-> "", filled |-> acc]
  ELSE LET f == fillRecord(attrs, 1, data[i], validate, EmptyMap)
       IN IF f.error # "" THEN [error |-> f.error, filled |-> acc]
          ELSE fillRecords(attrs, data, i + 1, validate, Append(acc, f.filled))

\* Model.checkForDuplicatePrimaryKeys: the statement and its parameters pk<i>
DuplicateCheck(e, primaryKeyValues) ==
  Call("query",
       Select(FALSE, <<SelectItem("", TableName(e), PrimaryKey(e), PrimaryKey(e))>>,
              TableName(e), TableName(e), <<>>,
              <<Cond(PrimaryKey(e)[1], "IN", [i \in DOMAIN primaryKeyValues |-> i - 1])>>,
              0, 0),
       [n \in {i - 1 : i \in DOMAIN primaryKeyValues} |-> primaryKeyValues[n + 1]])

\* the values the duplicate check c finds in the table
ExistingKeys(e, g) ==
  [error |-> g.error, keys |-> {g.rows[i][PrimaryKey(e)] : i \in DOMAIN g.rows}]

runDuplicateCheck(db, e, c) == ExistingKeys(e, GatewayQuery(db, c.sql, c.params))

\* table.insert(recs) after the calls cs, and what the operation returns
inserted(cs, call, x, result) ==
  Done(x.error, Append(cs, call), x.tables, IF x.error = "" THEN result ELSE <<>>)

insertFilled(e, cs, recs, result) ==
  inserted(cs, Call("insert", TableName(e), recs),
           TableInsert(tables, TableName(e), recs), result)

\* the calls made so far when the duplicate check ran or did not
Checked(ran, check) == IF ran THEN <<check>> ELSE <<>>

\* create after the duplicate check (part_000 lines 541-553); ran: it was made
createChecked(e, filled, primaryKeyValue, ran, check, existing) ==
  IF ran /\ existing.error # "" THEN Done(existing.error, <<check>>, tables, <<>>)
  ELSE IF ran /\ primaryKeyValue \in existing.keys
  THEN Done("Duplicate primary key value", <<check>>, tables, <<>>)
  ELSE insertFilled(e, Checked(ran, check), <<filled>>, <<filled>>)

createKeyed(r, e, filled, primaryKeyValue, check) ==
  createChecked(e, filled, primaryKeyValue,
                r = "part_000" /\ ~IsNullish(primaryKeyValue),
                check, runDuplicateCheck(tables, e, check))

createFilled(r, e, f) ==
  IF f.error # "" THEN Done(f.error, <<>>, tables, <<>>)
  ELSE createKeyed(r, e, f.filled, Get(f.filled, PrimaryKey(e)),
                   DuplicateCheck(e, <<Get(f.filled, PrimaryKey(e))>>))

\* a create that fills the record without looking at allowNull
create_unvalidated(r, e, data) ==
  IF freeTierMode THEN Done(FreeTierError, <<>>, tables, <<>>)
  ELSE createFilled(r, e, fillRecord(attributes[e], 1, data, FALSE, EmptyMap))

\* Model.create(dataset, data)
create(r, e, data) ==
  IF freeTierMode THEN Done(FreeTierError, <<>>, tables, <<>>)
  ELSE createFilled(r, e, fillRecord(attributes[e], 1, data, TRUE, EmptyMap))

\* the batch names a primary-key value twice
DuplicatesInBatch(keys) == \E i, j \in DOMAIN keys : i < j /\ keys[i] = keys[j]

BulkOptions(validate, returning) == [validate |-> validate, returning |-> returning]

\* bulkCreate after the duplicate check (part_000 lines 611-655)
bulkChecked(e, filled, primaryKeyValues, ran, check, existing, result) ==
  IF ran /\ existing.error # "" THEN Done(existing.error, <<check>>, tables, <<>>)
  ELSE IF ran /\ DuplicatesInBatch(primaryKeyValues)
  THEN Done("Duplicate primary keys within batch", <<check>>, tables, <<>>)
  ELSE IF ran /\ existing.keys # {}
  THEN Done("Duplicate primary keys with existing records", <<check>>, tables, <<>>)
  ELSE insertFilled(e, Checked(ran, check), filled, result)

bulkKeyed(r, e, filled, primaryKeyValues, check, result) ==
  bulkChecked(e, filled, primaryKeyValues, r = "part_000" /\ primaryKeyValues # <<>>,
              check, runDuplicateCheck(tables, e, check), result)

\* the primary-key values of the filled records that are neither undefined nor null
KeyValues(e, filled) ==
  SelectSeq([i \in DOMAIN filled |-> Get(filled[i], PrimaryKey(e))], LAMBDA v : ~IsNullish(v))

bulkFilled(r, e, f, returning) ==
  IF f.error # "" THEN Done(f.error, <<>>, tables, <<>>)
  ELSE bulkKeyed(r, e, f.filled, KeyValues(e, f.filled),
                 DuplicateCheck(e, KeyValues(e, f.filled)),
                 IF returning THEN f.filled ELSE <<>>)

\* Model.bulkCreate(dataset, data, options); options.validate is "false" or
\* "unset", returning is a boolean
bulkCreate(r, e, data, options) ==
  IF freeTierMode THEN Done(FreeTierError, <<>>, tables, <<>>)
  ELSE IF data = <<>> THEN Done("", <<>>, tables, <<>>)
  ELSE bulkFilled(r, e, fillRecords(attributes[e], data, 1, options.validate # "false", <<>>),
                  options.returning)

\* Number(metadata.statistics?.query?.numDmlAffectedRows || 0) of the finished job
jobDone(stmt, params, x) ==
  Done(x.error, <<Call("createQueryJob", stmt, params)>>, x.tables,
       IF x.error = "" THEN <<x.affected>> ELSE <<>>)

\* what the warehouse answers a job for reasons outside the statement: rows
\* of the table still in the streaming buffer, an exhausted quota
StreamingBufferError == "would affect rows in the streaming buffer, which is not supported"
QuotaError == "Quota exceeded"
NoFault == ""
GatewayFaults == {NoFault, StreamingBufferError, QuotaError}

\* the job of one statement while the warehouse is in condition fault
GatewayJob(db, stmt, params, fault) ==
  IF fault = NoFault THEN GatewayExec(db, stmt, params) ELSE Executed(fault, db, 0)

\* createQueryJob of one statement
runJob(stmt, params, fault) ==
  jobDone(stmt, params, GatewayJob(tables, stmt, params, fault))

\* Object.entries(data) in key order
RECURSIVE Keys(_)
Keys(data) ==
  IF DOMAIN data = {} THEN <<>>
  ELSE LET k == CHOOSE x \in DOMAIN data : TRUE
       IN <<k>> \o Keys([y \in DOMAIN data \ {k} |-> data[y]])

\* `field` = @set_field for every entry of data
SetClauses(keys) == [i \in DOMAIN keys |-> SetParam(keys[i])]

updateCompiled(e, data, w, fault) ==
  runJob(Statement("UPDATE", TableName(e), SetClauses(Keys(data)), OrTrue(w.clause),
                   EmptyMap, NoAlter),
         DmlParams(data, w.params), fault)

\* Model.update(dataset, data, options)
update(e, data, where, fault) ==
  IF freeTierMode THEN Done(FreeTierError, <<>>, tables, <<>>)
  ELSE updateCompiled(e, data, buildWhereClause(where, 0), fault)

destroyCompiled(e, w, fault) ==
  runJob(Statement("DELETE", TableName(e), <<>>, OrTrue(w.clause), EmptyMap, NoAlter),
         DmlParams(EmptyMap, w.params), fault)

\* Model.destroy(dataset, options)
destroy(e, where, fault) ==
  IF freeTierMode THEN Done(FreeTierError, <<>>, tables, <<>>)
  ELSE destroyCompiled(e, buildWhereClause(where, 0), fault)

\* options.by || 1
ByOrOne(by) == IF by = 0 \/ by = UNDEFINED THEN 1 ELSE by

\* `field` = `field` + by for every field
PlusClauses(fields, by) == [i \in DOMAIN fields |-> SetPlus(fields[i], by)]

incrementCompiled(e, fields, by, w, fault) ==
  runJob(Statement("UPDATE", TableName(e), PlusClauses(fields, by), OrTrue(w.clause),
                   EmptyMap, NoAlter),
         DmlParams(EmptyMap, w.params), fault)

\* Model.increment(dataset, fields, options); by is UNDEFINED when not given
increment(e, fields, by, where, fault) ==
  IF freeTierMode THEN Done(FreeTierError, <<>>, tables, <<>>)
  ELSE incrementCompiled(e, fields, ByOrOne(by), buildWhereClause(where, 0), fault)

\* a decrement that compiles its own UPDATE instead of going through increment
decrement_own_update(e, fields, by, where, fault) ==
  incrementCompiled(e, fields, 0 - ByOrOne(by), buildWhereClause(where, 0), fault)

\* Model.decrement(dataset, fields, options)
decrement(e, fields, by, where, fault) ==
  increment(e, fields, 0 - ByOrOne(by), where, fault)

truncateRan(stmt, x) == Done(x.error, <<Call("query", stmt, EmptyMap)>>, x.tables, <<>>)

truncateCompiled(stmt) ==
  truncateRan(stmt, GatewayExec(tables, stmt, DmlParams(EmptyMap, EmptyMap)))

\* Model.truncate(dataset)
truncate(e) ==
  IF freeTierMode THEN Done(FreeTierError, <<>>, tables, <<>>)
  ELSE truncateCompiled(Statement("TRUNCATE", TableName(e), <<>>, <<>>, EmptyMap, NoAlter))

(***************************************************************************)
(* queryInterface.ts and BigQueryORM.transaction.  The text of a raw       *)
(* statement is [pad, verb]: whether white space leads it, and its first   *)
(* word as typed; stmt is the statement the gateway reads from that text   *)
(* (keywords in any case, leading white space ignored).                    *)
(***************************************************************************)
Raw(pad, verb, stmt) == [stmt |-> stmt, text |-> [pad |-> pad, verb |-> verb]]

\* String.prototype.trim
Trim(text) == [text EXCEPT !.pad = FALSE]

UpperWord(w) ==
  CASE w \in {"insert", "Insert", "INSERT"} -> "INSERT"
    [] w \in {"update", "UPDATE"} -> "UPDATE"
    [] w \in {"delete", "DELETE"} -> "DELETE"
    [] w \in {"alter", "ALTER"} -> "ALTER"
    [] w \in {"select", "SELECT"} -> "SELECT"
    [] OTHER -> w

\* String.prototype.toUpperCase
ToUpperCase(text) == [text EXCEPT !.verb = UpperWord(@)]

\* String.prototype.startsWith(word)
StartsWith(text, word) == ~text.pad /\ text.verb = word

Answered(g, db) == [tables |-> db, error |-> g.error, rows |-> g.rows]
Changed(x) == [tables |-> x.tables, error |-> x.error, rows |-> <<>>]

\* bigquery.query of any statement
GatewayRun(db, stmt, params) ==
  IF stmt.kind \in {"SELECT", "WITH"}
  THEN Answered(GatewayQuery(db, stmt, params), db)
  ELSE Changed(GatewayExec(db, stmt, params))

queryRan(raw, params, x) ==
  Done(x.error, <<Call("query", raw.stmt, params)>>, x.tables, x.rows)

\* QueryInterface.query(sql, params)
qiQuery(raw, params) ==
  IF freeTierMode /\ StartsWith(ToUpperCase(Trim(raw.text)), "INSERT")
  THEN Done(FreeTierError, <<>>, tables, <<>>)
  ELSE queryRan(raw, params, GatewayRun(tables, raw.stmt, params))

AlterStatement(table, action, col, to) ==
  Statement("ALTER", table, <<>>, <<>>, EmptyMap, [col |-> col, action |-> action, to |-> to])

alterRan(stmt, x) == Done(x.error, <<Call("query", stmt, EmptyMap)>>, x.tables, <<>>)

\* bigquery.query(sql) of an ALTER TABLE statement
runAlter(stmt) == alterRan(stmt, GatewayExec(tables, stmt, DmlParams(EmptyMap, EmptyMap)))

\* QueryInterface.addColumn(tableName, columnName, type)
addColumn(table, col) ==
  IF freeTierMode THEN Done(FreeTierError, <<>>, tables, <<>>)
  ELSE runAlter(AlterStatement(table, "ADD COLUMN", col, <<>>))

\* QueryInterface.removeColumn(tableName, columnName)
removeColumn(table, col) ==
  IF freeTierMode THEN Done(FreeTierError, <<>>, tables, <<>>)
  ELSE runAlter(AlterStatement(table, "DROP COLUMN IF EXISTS", col, <<>>))

\* QueryInterface.renameColumn(tableName, oldColumnName, newColumnName)
renameColumn(table, col, to) ==
  IF freeTierMode THEN Done(FreeTierError, <<>>, tables, <<>>)
  ELSE runAlter(AlterStatement(table, "RENAME COLUMN", col, to))

\* QueryInterface.changeColumn(tableName, columnName, type)
changeColumn(table, col) ==
  IF freeTierMode THEN Done(FreeTierError, <<>>, tables, <<>>)
  ELSE runAlter(AlterStatement(table, "ALTER COLUMN SET DATA TYPE", col, <<>>))

\* QueryInterface.addClustering(tableName, clusterBy): free tier mode only warns
addClustering(table, clusterBy) ==
  runAlter(AlterStatement(table, "SET OPTIONS", clusterBy, <<>>))

\* BigQueryORM.transaction(fn): free tier mode only warns; the outcome of fn
\* (given as the outcome of the query-interface call it makes) is the outcome
transaction(fnOutcome) == fnOutcome

(***************************************************************************)
(* One write or schema operation as a step.  Tables stay within MaxRows    *)
(* rows and cell values within 1..MaxValue.                                *)
(***************************************************************************)
WithinBounds(db) ==
  \A t \in DOMAIN db :
    /\ Len(db[t].rows) <= MaxRows
    /\ \A i \in DOMAIN db[t].rows : \A c \in DOMAIN db[t].rows[i] :
         db[t].rows[i][c] = NULL \/ db[t].rows[i][c] \in Values

Apply(op, e, input, w) ==
  /\ last.op = "idle"
  /\ WithinBounds(w.tables)
  /\ calls' = w.calls
  /\ tables' = w.tables
  /\ last' = Outcome(op, e, input, w.error, w.result)
  /\ UNCHANGED <<running, rev, freeTierMode, models, executedMigrations, migrationLog,
               associations, registered, attributes>>

(***************************************************************************)
(* The warehouse content.                                                  *)
(***************************************************************************)
Row1(c1, v1) == (c1 :> v1)
Row2(c1, v1, c2, v2) == (c1 :> v1) @@ (c2 :> v2)
Row3(c1, v1, c2, v2, c3, v3) == (c1 :> v1) @@ (c2 :> v2) @@ (c3 :> v3)

\* the physical columns sync() creates: the attributes at Model.init
InitColumns(e) == {InitAttributes(e)[i].name : i \in DOMAIN InitAttributes(e)}

EmptyTables == [t \in {TableName(e) : e \in Entities} |->
                  Table(InitColumns(CHOOSE e \in Entities : TableName(e) = t), <<>>)]

\* the ascending sequence of a set of numbers
RECURSIVE Sorted(_)
Sorted(S) ==
  IF S = {} THEN <<>>
  ELSE LET m == CHOOSE x \in S : \A y \in S : x <= y IN <<m>> \o Sorted(S \ {m})

UserRow(id) == Row3(<<"id">>, id, <<"name">>, id, <<"level">>, 1)

\* order id belongs to user 1, the last order to user 2
OrderRow(id) ==
  Row3(<<"id">>, id, <<"userId">>, IF id = MaxOrders THEN 2 ELSE 1,
       <<"amount">>, ((id - 1) % MaxValue) + 1)

Warehouse(orderIds, links) ==
  [EmptyTables EXCEPT
     ![<<"user">>].rows = <<UserRow(1), UserRow(2)>>,
     ![<<"order">>].rows = [i \in DOMAIN Sorted(orderIds) |-> OrderRow(Sorted(orderIds)[i])],
     ![<<"tag">>].rows = <<Row2(<<"id">>, 1, <<"label">>, 1), Row2(<<"id">>, 2, <<"label">>, 2)>>,
     ![<<"usertag">>].rows = links]

Warehouses ==
  {Warehouse(ids, links) :
     ids \in SUBSET (1..MaxOrders),
     links \in {<<>>, <<Row2(<<"userId">>, 1, <<"tagId">>, 1),
                        Row2(<<"userId">>, 1, <<"tagId">>, 2)>>}}

(***************************************************************************)
(* The association registry under registration calls and includes.         *)
(***************************************************************************)
Items == <<"items">>

RegInputs ==
  {Reg(m, "User", "Order", "", as) : m \in {"hasMany", "hasOne"}, as \in {<<>>, Items}}
  \cup {Reg("belongsTo", "Order", t, "", as) : t \in {"User", "Tag"}, as \in {<<>>, Items}}
  \cup {Reg("hasMany", "Tag", "Order", "", <<>>)}
  \cup {Reg("belongsToMany", "User", "Tag", th, <<>>) : th \in {"UserTag", ""}}
  \cup {WithOtherKey(Reg("belongsToMany", "User", "Tag", "UserTag", <<>>), <<"tagId">>)}

ProbeIncludes ==
  {Include(m, as, NoWhere, FALSE, NoAttrs) :
     m \in {"Order", "Tag", "User"}, as \in {<<>>, Items, <<"orders">>, <<"tags">>}}

PlainFind(include) == FindOptions(NoAttrs, NoWhere, include, 0, 0, FALSE, FALSE)

InitAssoc ==
  /\ rev \in Revisions
  /\ freeTierMode = FALSE
  /\ models = InitModels
  /\ executedMigrations = {}
  /\ migrationLog = <<>>
  /\ associations = EmptyMap
  /\ registered = <<>>
  /\ attributes = [e \in Entities |-> InitAttributes(e)]
  /\ tables = EmptyTables
  /\ calls = <<>>
  /\ last = Idle
  /\ running = NoneRunning

RegisterAssociation == \E r \in RegInputs : Register(r)

FindAllIncluding ==
  \E e \in {"User", "Order", "Tag"}, inc \in ProbeIncludes : FindAll(e, PlainFind(<<inc>>))

NextAssoc == RegisterAssociation \/ FindAllIncluding \/ Settle

SpecAssoc == InitAssoc /\ [][NextAssoc]_vars

(***************************************************************************)
(* Find requests against a warehouse, with the associations of User        *)
(* registered: User.hasMany(Order, as orders), Order.belongsTo(User),      *)
(* User.belongsToMany(Tag, through UserTag).                               *)
(***************************************************************************)
FixedRegs ==
  <<Reg("hasMany", "User", "Order", "", <<>>),
    Reg("belongsTo", "Order", "User", "", <<>>),
    Reg("belongsToMany", "User", "Tag", "UserTag", <<>>)>>

OrdersIncludes ==
  {Include("Order", <<"orders">>, w, req, at) :
     w \in {NoWhere, Where(<<Scalar("amount", MaxValue)>>)},
     req \in BOOLEAN,
     at \in {NoAttrs, Attrs(<<<<"amount">>>>)}}

TagsInclude == Include("Tag", <<"tags">>, NoWhere, FALSE, NoAttrs)

IncludeLists ==
  {<<>>, <<TagsInclude>>}
  \cup {<<i>> : i \in OrdersIncludes}
  \cup {<<i, TagsInclude>> : i \in {j \in OrdersIncludes : ~j.required /\ ~j.attributes.set}}

MainWheres ==
  {NoWhere,
   Where(<<Scalar("name", 1)>>),
   Where(<<Scalar("level", 1)>>),
   Where(<<Comb("or", <<<<Scalar("name", 1)>>, <<Scalar("name", 2)>>>>)>>)}

FindInputs ==
  {FindOptions(NoAttrs, w, inc, 0, 0, d, FALSE) :
     w \in MainWheres, inc \in IncludeLists, d \in BOOLEAN}
  \cup {FindOptions(NoAttrs, w, inc, lim, off, FALSE, FALSE) :
          w \in {NoWhere, Where(<<Scalar("name", 1)>>)}, inc \in IncludeLists,
          lim \in 0..MaxLimit, off \in 0..MaxLimit}

InitFind ==
  /\ rev \in Revisions
  /\ freeTierMode = FALSE
  /\ models = InitModels
  /\ executedMigrations = {}
  /\ migrationLog = <<>>
  /\ registered = FixedRegs
  /\ associations = RegisterAll(EmptyMap, FixedRegs)
  /\ attributes = BackfillAll([e \in Entities |-> InitAttributes(e)], FixedRegs)
  /\ tables \in Warehouses
  /\ calls = <<>>
  /\ last = Idle
  /\ running = NoneRunning

FindAllUsers == \E o \in FindInputs : FindAll("User", o)
FindOneUser == \E o \in FindInputs : FindOne("User", o)
CountUsers == \E o \in FindInputs : Count("User", o)
FindAndCountAllUsers == \E o \in FindInputs : FindAndCountAll("User", o)

NextFind == FindAllUsers \/ FindOneUser \/ CountUsers \/ FindAndCountAllUsers \/ Settle

SpecFind == InitFind /\ [][NextFind]_vars

(***************************************************************************)
(* Reassembly of row sequences: nestAssociations on User with the includes *)
(* orders (has-many) and tags (many-to-many).                              *)
(***************************************************************************)
\* one joined row: user uid, order oid and tag tid (NULL: no match)
NestRow(uid, oid, tid) ==
  (<<"user", "id">> :> uid) @@ (<<"user", "name">> :> uid) @@ (<<"user", "level">> :> 1)
  @@ (<<"orders", "id">> :> oid)
  @@ (<<"orders", "userId">> :> IF oid = NULL THEN NULL ELSE uid)
  @@ (<<"orders", "amount">> :> oid)
  @@ (<<"tags", "id">> :> tid) @@ (<<"tags", "label">> :> tid)

NestRows ==
  {NestRow(uid, oid, tid) : uid \in {1, 2}, oid \in {NULL, 1, 2}, tid \in {NULL, 1}}

RECURSIVE SeqsUpTo(_, _)
SeqsUpTo(S, n) ==
  IF n = 0 THEN {<<>>}
  ELSE LET shorter == SeqsUpTo(S, n - 1)
       IN shorter \cup {Append(s, x) : s \in {t \in shorter : Len(t) = n - 1}, x \in S}

NestIncludes ==
  {<<Include("Order", <<"orders">>, NoWhere, FALSE, at), TagsInclude>> :
     at \in {NoAttrs, Attrs(<<<<"amount">>>>), Attrs(<<<<"id">>, <<"amount">>>>)}}

InitNest ==
  /\ rev \in Revisions
  /\ freeTierMode = FALSE
  /\ models = InitModels
  /\ executedMigrations = {}
  /\ migrationLog = <<>>
  /\ registered = FixedRegs
  /\ associations = RegisterAll(EmptyMap, FixedRegs)
  /\ attributes = BackfillAll([e \in Entities |-> InitAttributes(e)], FixedRegs)
  /\ tables = EmptyTables
  /\ calls = <<>>
  /\ last = Idle
  /\ running = NoneRunning

NestInput(rows, include) == [include |-> include, rows |-> rows]

\* nestAssociations applied to a row sequence
Nest ==
  \E rows \in SeqsUpTo(NestRows, MaxNestRows), include \in NestIncludes :
    /\ last.op = "idle"
    /\ last' = Outcome("nestAssociations", "User", NestInput(rows, include), "",
                       nestAssociations(rev, "User", rows, include))
    /\ UNCHANGED <<running, rev, freeTierMode, models, executedMigrations, migrationLog,
                 associations, registered, attributes, tables, calls>>

NextNest == Nest \/ Settle

SpecNest == InitNest /\ [][NextNest]_vars

(***************************************************************************)
(* Write and schema operations on User, with the read-only flag set or     *)
(* not.                                                                    *)
(***************************************************************************)
Id == <<"id">>
Name == <<"name">>
Level == <<"level">>

RecA == (Id :> 1) @@ (Name :> 1)
RecB == (Id :> 2) @@ (Name :> 1)
RecLevel == (Id :> 2) @@ (Name :> 1) @@ (Level :> MaxValue)
RecNoName == (Id :> 2)
RecNoId == (Name :> 1)

CreateInputs == {RecA, RecB, RecLevel, RecNoName, RecNoId}

BulkInputs == {<<>>, <<RecA>>, <<RecB>>, <<RecNoName>>, <<RecB, RecNoName>>, <<RecA, RecA>>}

BulkOptionInputs == {BulkOptions(v, ret) : v \in {"unset", "false"}, ret \in BOOLEAN}

WriteWheres == {NoWhere, Where(<<>>), Where(<<Scalar("id", 1)>>)}

ByInputs == {UNDEFINED, 1}

UserTable == TableName("User")

RawInputs ==
  {Raw(pad, verb,
       Statement("INSERT", UserTable, <<>>, <<>>, RecB @@ (Level :> 1), NoAlter)) :
     pad \in BOOLEAN, verb \in {"INSERT", "insert"}}
  \cup {Raw(FALSE, "UPDATE",
            Statement("UPDATE", UserTable, <<SetPlus(Level, 1)>>, <<Kw("TRUE")>>,
                      EmptyMap, NoAlter)),
        Raw(FALSE, "DELETE",
            Statement("DELETE", UserTable, <<>>, <<Kw("TRUE")>>, EmptyMap, NoAlter)),
        Raw(FALSE, "ALTER", AlterStatement(TableName("Tag"), "SET OPTIONS", <<"label">>, <<>>))}

Note == <<"note">>
Memo == <<"memo">>
TagTable == TableName("Tag")

InitWrite ==
  /\ rev \in Revisions
  /\ freeTierMode \in BOOLEAN
  /\ models = InitModels
  /\ executedMigrations = {}
  /\ migrationLog = <<>>
  /\ registered = <<>>
  /\ associations = EmptyMap
  /\ attributes = [e \in Entities |-> InitAttributes(e)]
  /\ tables \in {EmptyTables, [EmptyTables EXCEPT ![UserTable].rows = <<UserRow(1)>>]}
  /\ calls = <<>>
  /\ last = Idle
  /\ running = NoneRunning

Create == \E data \in CreateInputs : Apply("create", "User", data, create(rev, "User", data))

BulkInput(data, options) == [options |-> options, data |-> data]

BulkCreate ==
  \E data \in BulkInputs, o \in BulkOptionInputs :
    Apply("bulkCreate", "User", BulkInput(data, o), bulkCreate(rev, "User", data, o))

WriteInput(data, fields, by, where, fault) ==
  [where |-> where, fields |-> fields, data |-> data, by |-> by, fault |-> fault]

Update ==
  \E w \in WriteWheres, fault \in GatewayFaults :
    Apply("update", "User", WriteInput((Level :> MaxValue), <<>>, UNDEFINED, w, fault),
          update("User", (Level :> MaxValue), w, fault))

Destroy ==
  \E w \in WriteWheres, fault \in GatewayFaults :
    Apply("destroy", "User", WriteInput(EmptyMap, <<>>, UNDEFINED, w, fault),
          destroy("User", w, fault))

Increment ==
  \E w \in WriteWheres, by \in ByInputs, fault \in GatewayFaults :
    Apply("increment", "User", WriteInput(EmptyMap, <<Level>>, by, w, fault),
          increment("User", <<Level>>, by, w, fault))

Decrement ==
  \E w \in WriteWheres, by \in ByInputs, fault \in GatewayFaults :
    Apply("decrement", "User", WriteInput(EmptyMap, <<Level>>, by, w, fault),
          decrement("User", <<Level>>, by, w, fault))

Truncate == Apply("truncate", "User", EmptyMap, truncate("User"))

Query ==
  \E raw \in RawInputs :
    Apply("query", "", raw, qiQuery(raw, DmlParams(EmptyMap, EmptyMap)))

AddColumn == Apply("addColumn", "", Note, addColumn(TagTable, Note))
RemoveColumn == Apply("removeColumn", "", Note, removeColumn(TagTable, Note))
RenameColumn == Apply("renameColumn", "", Note, renameColumn(TagTable, Note, Memo))
ChangeColumn == Apply("changeColumn", "", Note, changeColumn(TagTable, Note))
AddClustering == Apply("addClustering", "", Id, addClustering(UserTable, Id))

Transaction ==
  \E raw \in RawInputs :
    Apply("transaction", "", raw, transaction(qiQuery(raw, DmlParams(EmptyMap, EmptyMap))))

NextWrite ==
  \/ Create \/ BulkCreate \/ Update \/ Destroy \/ Increment \/ Decrement \/ Truncate
  \/ Query \/ AddColumn \/ RemoveColumn \/ RenameColumn \/ ChangeColumn \/ AddClustering
  \/ Transaction
  \/ Settle

SpecWrite == InitWrite /\ [][NextWrite]_vars

(***************************************************************************)
(* Claims about compiled find statements and their results (SpecFind).     *)
(***************************************************************************)
Min(a, b) == IF a <= b THEN a ELSE b

NoDuplicates(xs) == \A i, j \in DOMAIN xs : i # j => xs[i] # xs[j]

\* the placeholders of the filter of a statement; findAndCountAll writes the
\* one shared WHERE text into both sub-queries, and it is counted once
FilterPlaceholders(stmt) ==
  IF stmt.kind = "WITH" THEN Placeholders(stmt.data.where) ELSE Placeholders(stmt.where)

FindOps == {"findAll", "findOne", "count", "findAndCountAll"}

\* C1: in every statement compiled for a find request no two @param
\* placeholders share a name, and the parameter map has exactly one entry per
\* placeholder.
C1_ParamNamesUnique ==
  (last.op \in FindOps /\ calls # <<>>) =>
    /\ NoDuplicates(FilterPlaceholders(calls[1].sql))
    /\ DOMAIN calls[1].params = Range(FilterPlaceholders(calls[1].sql))

\* the request of the last operation has a top-level filter and an include filter
C1_TwoFilters ==
  /\ last.op \in FindOps /\ calls # <<>>
  /\ last.input.where.set /\ last.input.where.tree # <<>>
  /\ \E i \in DOMAIN last.input.include :
       last.input.include[i].where.set /\ last.input.include[i].where.tree # <<>>

\* the plain has-many request of the pagination property: include orders,
\* no filter, not required, all attributes, no offset
IsPlainOrdersRequest(o) ==
  /\ o.include = <<Include("Order", <<"orders">>, NoWhere, FALSE, NoAttrs)>>
  /\ ~o.where.set /\ o.offset = 0 /\ ~o.distinct

OrderIdsOf(uid) ==
  LET rows == tables[<<"order">>].rows
  IN {rows[i][<<"id">>] : i \in {j \in DOMAIN rows : rows[j][<<"userId">>] = uid}}

ChildIds(parent, as) ==
  {parent.slots[as].items[i][<<"id">>] : i \in DOMAIN parent.slots[as].items}

\* C3: findAll with limit n (findOne: n = 1) and a has-many include returns
\* n parents (all of them when there are fewer), each with all of its
\* children attached.
C3_LimitCountsParents ==
  (/\ last.op \in {"findAll", "findOne"} /\ last.error = ""
   /\ IsPlainOrdersRequest(last.input)
   /\ (last.op = "findOne" \/ last.input.limit > 0)) =>
    LET n == IF last.op = "findOne" THEN 1 ELSE last.input.limit IN
    /\ Len(last.result) = Min(n, Len(tables[<<"user">>].rows))
    /\ \A i \in DOMAIN last.result :
         ChildIds(last.result[i], <<"orders">>) = OrderIdsOf(last.result[i].fields[<<"id">>])

\* the statement's select list (of its data query) has the column <as>_<field>
SelectsColumn(stmt, as, field) ==
  LET sel == IF stmt.kind = "WITH" THEN stmt.data.select ELSE stmt.select
  IN \E i \in DOMAIN sel : sel[i].as = Col(as, field) /\ sel[i].q = as /\ sel[i].col = field

\* C5: on the findAll and the findAndCountAll path, an include whose attribute
\* list omits the target's primary key still has <alias>_<primaryKey> in the
\* compiled SELECT list.
C5_PrimaryKeySelected ==
  (last.op \in {"findAll", "findOne", "findAndCountAll"} /\ calls # <<>>) =>
    \A i \in DOMAIN last.input.include :
      LET inc == last.input.include[i] IN
      (inc.attributes.set /\ ~Contains(inc.attributes.names, PrimaryKey(inc.model)))
        => SelectsColumn(calls[1].sql, IncAlias(inc), PrimaryKey(inc.model))

\* the rows of the queried table that satisfy the request's top-level filter
MatchingMain(e, o) ==
  LET w == buildWhereClause(o.where, 0)
      binds == (TableName(e) :> TableName(e))
  IN SelectSeq(tables[TableName(e)].rows, LAMBDA row :
       WhereHolds(tables, binds, (TableName(e) :> row), w.params, w.clause))

\* C9: the count of findAndCountAll is the total number of rows matching the
\* filter, whatever the limit and the offset (requests without includes, where
\* the matching rows are the rows of the queried table).
C9_CountIsTotal ==
  (/\ last.op = "findAndCountAll" /\ last.error = ""
   /\ last.input.include = <<>> /\ ~last.input.distinct) =>
    last.result[1].count = Len(MatchingMain(last.entity, last.input))

\* C10: the count sub-query of findAndCountAll has the FROM, the JOINs and the
\* WHERE of the data query, and counts * or the distinct primary key.
C10_CountQuerySameSource ==
  (last.op = "findAndCountAll" /\ calls # <<>>) =>
    LET q == calls[1].sql IN
    /\ q.count.from = q.data.from /\ q.count.as = q.data.as
    /\ q.count.joins = q.data.joins
    /\ q.count.where = q.data.where
    /\ q.count.select = CountSelect(last.entity, last.input)

(***************************************************************************)
(* Claims about the association registry (SpecAssoc).                      *)
(***************************************************************************)
\* C2: every entity has exactly the associations registered on it, each as
\* last registered there, and an include naming an alias and target that
\* were not registered on the queried entity is rejected.
C2_AssociationsPerEntity ==
  /\ \A e \in Entities : AssociationsOf(e) = RegisteredOn(registered, e)
  /\ (last.op = "findAll" /\
      \E i \in DOMAIN last.input.include :
        LET inc == last.input.include[i]
            own == RegisteredOn(registered, last.entity)
        IN ~(IncAlias(inc) \in DOMAIN own /\ own[IncAlias(inc)].target = inc.model))
     => last.error = "Association not found"

(***************************************************************************)
(* Claims about reassembly (SpecNest).                                     *)
(***************************************************************************)
\* the non-null child keys that the rows of one parent carry for an include
ChildKeysOf(rows, parentPK, as, pk) ==
  {rows[i][Col(as, pk)] :
     i \in {j \in DOMAIN rows : rows[j][Col(TableName("User"), PrimaryKey("User"))] = parentPK}}
  \ {NULL}

\* C4: after nestAssociations, for every collection include and every
\* requested attribute subset, a parent's collection holds at most one object
\* per child primary-key value that the parent's rows carry.
C4_CollectionsDeduplicated ==
  last.op = "nestAssociations" =>
    \A p \in DOMAIN last.result : \A k \in DOMAIN last.input.include :
      LET inc == last.input.include[k]
          as == IncAlias(inc)
      IN Len(last.result[p].slots[as].items)
           <= Cardinality(ChildKeysOf(last.input.rows,
                                      last.result[p].fields[PrimaryKey("User")],
                                      as, PrimaryKey(inc.model)))

(***************************************************************************)
(* Claims about write operations and the read-only flag (SpecWrite).       *)
(***************************************************************************)
\* the record omits an attribute declared allowNull:false without a default
OmitsRequired(e, rec) ==
  \E i \in DOMAIN attributes[e] :
    /\ attributes[e][i].allowNull = FALSE
    /\ attributes[e][i].defaultValue = UNDEFINED
    /\ attributes[e][i].name \notin DOMAIN rec

\* the last operation was a create, or a bulkCreate with validation on, of a
\* record that omits a required attribute
OmittingCreate ==
  \/ last.op = "create" /\ OmitsRequired(last.entity, last.input)
  \/ /\ last.op = "bulkCreate"
     /\ last.input.options.validate # "false"
     /\ \E i \in DOMAIN last.input.data : OmitsRequired(last.entity, last.input.data[i])

RejectedAsMissing == last.error = MissingFieldError /\ calls = <<>>

\* C6 as stated: create, and bulkCreate unless validate is false, of a record
\* that omits a required default-less attribute rejects with 'Missing
\* required field', with no gateway call and no record inserted.
C6_MissingFieldRejected ==
  [][OmittingCreate' => (RejectedAsMissing' /\ tables' = tables)]_vars

\* C6 amended: the same, when the read-only flag is not set.
C6_MissingFieldRejectedWhenWritable ==
  [][(~freeTierMode /\ OmittingCreate') => (RejectedAsMissing' /\ tables' = tables)]_vars

\* a two-record batch whose second record omits name was rejected as a whole
C6_BatchRejected ==
  /\ ~freeTierMode
  /\ last.op = "bulkCreate" /\ last.input.data = <<RecB, RecNoName>>
  /\ OmittingCreate /\ RejectedAsMissing

WriteOps == {"create", "bulkCreate", "update", "destroy", "increment", "decrement", "truncate"}

\* C7: with the read-only flag set every write operation rejects with 'Free
\* tier mode', makes no gateway call and leaves the tables as they were;
\* without the flag no write operation raises that error.
C7_ReadOnlyRejectsWrites ==
  [][last'.op \in WriteOps =>
       IF freeTierMode
       THEN last'.error = FreeTierError /\ calls' = <<>> /\ tables' = tables
       ELSE last'.error # FreeTierError]_vars

\* a decrement was rejected under the read-only flag
C7_DecrementRejected ==
  freeTierMode /\ last.op = "decrement" /\ last.error = FreeTierError /\ calls = <<>>

DisabledKinds == {"INSERT", "UPDATE", "DELETE", "ALTER"}

\* C8: with the read-only flag set no operation submits an INSERT, UPDATE,
\* DELETE or ALTER statement (or a table insert) to the gateway.
C8_ReadOnlySubmitsNoWrites ==
  freeTierMode =>
    \A i \in DOMAIN calls :
      calls[i].api # "insert" /\ calls[i].sql.kind \notin DisabledKinds

(***************************************************************************)
(* The predicate compiler on its own: buildWhereClause applied to a filter *)
(* tree and a start index.                                                 *)
(***************************************************************************)
MaxArr == 2
MaxStart == 2

\* the operator maps of the filter { age: {...} }, as Object.entries of the map
OpMapInputs ==
  {<<>>, <<<<"gte", 1>>>>, <<<<"lt", MaxValue>>>>, <<<<"gte", 1>>, <<"lt", MaxValue>>>>,
   <<<<"lt", MaxValue>>, <<"gte", 1>>>>, <<<<"regex", 1>>>>}

\* the filter trees that stand as elements of an and/or array
SubTrees ==
  {<<>>, <<Scalar("age", 1)>>, <<Scalar("name", MaxValue)>>,
   <<Scalar("age", 1), Scalar("name", 1)>>,
   <<Arr("age", <<1, MaxValue>>)>>,
   <<Comb("or", <<<<Scalar("age", 1)>>, <<Scalar("name", 1)>>>>)>>}

WhereEntries ==
  {Scalar(k, v) : k \in {"age", "name"}, v \in Values}
  \cup {Arr("age", vs) : vs \in SeqsUpTo(Values, MaxArr)}
  \cup {OpMap("age", ops) : ops \in OpMapInputs}
  \cup {Comb(k, subs) : k \in {"and", "or"}, subs \in SeqsUpTo(SubTrees, 2)}

\* entries that follow another key in the same object
SiblingEntries ==
  {Scalar("name", 1), Arr("name", <<1, MaxValue>>), Comb("and", <<<<Scalar("age", 1)>>>>)}

\* the keys of one object are distinct
WhereTrees ==
  {<<>>} \cup {<<e>> : e \in WhereEntries}
  \cup {<<e, f>> : e \in {x \in WhereEntries : x.key # "name"},
                   f \in {x \in SiblingEntries : x.key = "name"}}
  \cup {<<e, f>> : e \in {x \in WhereEntries : x.key # "and"},
                   f \in {x \in SiblingEntries : x.key = "and"}}
  \cup {<<f, e>> : e \in {x \in WhereEntries : x.key # "name"},
                   f \in {x \in SiblingEntries : x.key = "name"}}

WhereInputs == {NoWhere} \cup {Where(t) : t \in WhereTrees}

BuildInput(where, paramIndex) == [paramIndex |-> paramIndex, where |-> where]

InitWhere ==
  /\ rev \in Revisions
  /\ freeTierMode = FALSE
  /\ models = InitModels
  /\ executedMigrations = {}
  /\ migrationLog = <<>>
  /\ registered = <<>>
  /\ associations = EmptyMap
  /\ attributes = [e \in Entities |-> InitAttributes(e)]
  /\ tables = EmptyTables
  /\ calls = <<>>
  /\ last = Idle
  /\ running = NoneRunning

\* buildWhereClause(where, {}, paramIndex)
BuildWhere ==
  \E w \in WhereInputs, s \in 0..MaxStart :
    /\ last.op = "idle"
    /\ last' = Outcome("buildWhereClause", "", BuildInput(w, s), "", buildWhereClause(w, s))
    /\ UNCHANGED <<running, rev, freeTierMode, models, executedMigrations, migrationLog,
                 associations, registered, attributes, tables, calls>>

NextWhere == BuildWhere \/ Settle

SpecWhere == InitWhere /\ [][NextWhere]_vars

(***************************************************************************)
(* Claims about the predicate compiler (SpecWhere).                        *)
(***************************************************************************)
\* the conditions of a fragment, in text order
Conds(clause) == SelectSeq(clause, LAMBDA t : t.k = "cond")

\* the input of the call is the one-key filter { key: value }
IsSingleEntry(t) ==
  last.op = "buildWhereClause" /\ last.input.where.set
  /\ Len(last.input.where.tree) = 1 /\ last.input.where.tree[1].t = t

\* C11: an operator map with several keys on one field compiles to one
\* condition and one parameter per operator key, the conditions joined by AND.
C11_OperatorMapConjunction ==
  (IsSingleEntry("op") /\ Len(last.input.where.tree[1].ops) > 1) =>
    LET e == last.input.where.tree[1]
        r == last.result
    IN /\ Len(Conds(r.clause)) = Len(e.ops)
       /\ Cardinality(DOMAIN r.params) = Len(e.ops)
       /\ \A i \in DOMAIN e.ops :
            /\ Conds(r.clause)[i].col = e.key
            /\ r.params[Conds(r.clause)[i].ps[1]] = e.ops[i][2]
       /\ \A i \in DOMAIN r.clause : r.clause[i].k = "kw" => r.clause[i].kw = "AND"

(***************************************************************************)
(* Claims about includes and their joins (SpecAssoc).                      *)
(***************************************************************************)
\* the include names an alias registered on the queried entity e, and the
\* target registered under that alias is the include's model
Trusted(e, inc) ==
  LET own == RegisteredOn(registered, e)
  IN IncAlias(inc) \in DOMAIN own /\ own[IncAlias(inc)].target = inc.model

\* C12: a find request with an include whose alias is not registered on the
\* queried entity, or is registered there with another target, rejects with
\* 'Association not found' and makes no gateway call.
C12_UntrustedIncludeRejected ==
  (last.op \in FindOps /\ \E i \in DOMAIN last.input.include :
                            ~Trusted(last.entity, last.input.include[i]))
    => (last.error = "Association not found" /\ calls = <<>>)

\* the registration call that wrote the association now stored under alias as
LatestReg(as) ==
  registered[CHOOSE k \in DOMAIN registered :
               /\ AssocOfReg(registered[k]).as = as
               /\ \A j \in DOMAIN registered :
                    AssocOfReg(registered[j]).as = as => j <= k]

\* the include resolves to a many-to-many association whose registration call
\* gave no junction entity or no otherKey
IncompleteManyToMany(e, inc) ==
  LET f == FindAssoc(e, inc)
  IN /\ f.found /\ f.assoc.type = "belongsToMany"
     /\ (LatestReg(f.assoc.as).through = "" \/ LatestReg(f.assoc.as).otherKey = <<>>)

ThroughError == "Through model and otherKey required for belongsToMany"

\* C13: a find request that includes a many-to-many association registered
\* without a junction entity or without an otherKey fails with the
\* configuration error and makes no gateway call.
C13_ManyToManyConfigRequired ==
  (last.op \in FindOps /\ \E i \in DOMAIN last.input.include :
                            IncompleteManyToMany(last.entity, last.input.include[i]))
    => (last.error = ThroughError /\ calls = <<>>)

(***************************************************************************)
(* Model classes: a class that extends Model and calls init, or a class    *)
(* made by orm.define.  models maps the name of an entity to the static    *)
(* fields of its class.                                                    *)
(***************************************************************************)
DefinedNames == {"User", "Order", "Tag"}

ModelOptionInputs ==
  {ModelOptions(t, k) : t \in {<<>>, <<"accounts">>}, k \in {<<>>, <<"name">>}}

InitDefine ==
  /\ rev \in Revisions
  /\ freeTierMode = FALSE
  /\ models = EmptyMap
  /\ executedMigrations = {}
  /\ migrationLog = <<>>
  /\ registered = <<>>
  /\ associations = EmptyMap
  /\ attributes = [e \in Entities |-> InitAttributes(e)]
  /\ tables = EmptyTables
  /\ calls = <<>>
  /\ last = Idle
  /\ running = NoneRunning

\* the class record c becomes the model of entity name
SetModel(op, name, options, c) ==
  /\ last.op = "idle"
  /\ models' = (name :> c) @@ models
  /\ last' = Outcome(op, name, options, "", c)
  /\ UNCHANGED <<running, rev, freeTierMode, executedMigrations, migrationLog,
               associations, registered, attributes, tables, calls>>

\* class <name> extends Model {}; <name>.init(attributes, options)
InitClass ==
  \E name \in DefinedNames, o \in ModelOptionInputs :
    SetModel("init", name, o, init(name, InitAttributes(name), o))

\* orm.define(name, attributes, options)
Define ==
  \E name \in DefinedNames, o \in ModelOptionInputs :
    SetModel("define", name, o, define(name, InitAttributes(name), o))

NextDefine == InitClass \/ Define \/ Settle

SpecDefine == InitDefine /\ [][NextDefine]_vars

(***************************************************************************)
(* Claims about model classes (SpecDefine).                                *)
(***************************************************************************)
\* C14: an entity initialised or defined without a tableName option has the
\* lowercase of its entity name as table name.
C14_DefaultTableName ==
  (last.op \in {"init", "define"} /\ last.input.tableName = <<>>)
    => models[last.entity].tableName = LowerName(last.entity)

(***************************************************************************)
(* Migrations: BigQueryORM.runMigrations(migrationsPath).  A file of the   *)
(* directory is [base, ext], its name being <base>.<ext>; bases are        *)
(* numbers written with the same number of digits (001, 002, ...), so the  *)
(* order of the names is the order of the bases and then of the            *)
(* extensions.  The name of a migration is the base of its file.  up is    *)
(* the caller's code: it completes or throws, and nothing else of it is    *)
(* modelled.  migrationLog keeps, for every call made so far, the          *)
(* directory it read, its error and the events of its loop.                *)
(***************************************************************************)
MaxFiles == 2
MaxRuns == 2

File(base, ext) == [base |-> base, ext |-> ext]

\* f.endsWith(suffix)
EndsWith(f, suffix) ==
  CASE suffix = ".d.ts" -> f.ext = "d.ts"
    [] suffix = ".ts" -> f.ext \in {"ts", "d.ts"}
    [] suffix = ".js" -> f.ext = "js"
    [] OTHER -> FALSE

\* !f.endsWith(".d.ts") && (f.endsWith(".ts") || f.endsWith(".js"))
IsMigrationFile(f) == ~EndsWith(f, ".d.ts") /\ (EndsWith(f, ".ts") \/ EndsWith(f, ".js"))

\* the order of the extensions as strings: "d.ts" < "js" < "md" < "ts"
ExtBefore(x, y) ==
  \/ x = "d.ts" /\ y \in {"js", "md", "ts"}
  \/ x = "js" /\ y \in {"md", "ts"}
  \/ x = "md" /\ y = "ts"

\* the order Array.prototype.sort() gives file names
FileBefore(f, g) == f.base < g.base \/ (f.base = g.base /\ ExtBefore(f.ext, g.ext))

\* readdirSync(migrationsPath).filter(...).sort()
RECURSIVE SortedFiles(_)
SortedFiles(S) ==
  IF S = {} THEN <<>>
  ELSE LET m == CHOOSE f \in S : \A g \in S \ {f} : FileBefore(f, g)
       IN <<m>> \o SortedFiles(S \ {m})

migrationFiles(dir) == SortedFiles({f \in dir : IsMigrationFile(f)})

\* path.basename(file, path.extname(file))
migrationName(f) == f.base

MigrationsTable == <<"migrations">>
NameColumn == <<"name">>
ExecutedAt == <<"executed", "at">>

\* metaTable.create({schema: [name STRING, executed_at TIMESTAMP]})
WithMetaTable(free, db) ==
  IF MigrationsTable \notin DOMAIN db /\ ~free
  THEN (MigrationsTable :> Table({NameColumn, ExecutedAt}, <<>>)) @@ db
  ELSE db

\* SELECT name FROM `project.dataset.migrations` ORDER BY executed_at ASC
SelectExecuted ==
  Select(FALSE, <<SelectItem("", MigrationsTable, NameColumn, NameColumn)>>,
         MigrationsTable, MigrationsTable, <<>>, <<>>, 0, 0)

\* new Date(): a reading of the clock, later than every recorded one
Now(db) == Len(db[MigrationsTable].rows) + 1

\* INSERT INTO `project.dataset.migrations` (name, executed_at) VALUES (@name, @executed_at)
InsertExecuted(db, name) ==
  Statement("INSERT", MigrationsTable, <<>>, <<>>,
            (NameColumn :> name) @@ (ExecutedAt :> Now(db)), NoAlter)

Event(kind, f) == [kind |-> kind, file |-> f]

\* the state of a runMigrations call: executed is the local set the loop tests
Migrating(error, db, executed, memory, cs, events) ==
  [tables |-> db, calls |-> cs, error |-> error, executed |-> executed,
   memory |-> memory, events |-> events]

RECURSIVE migrateFrom(_, _, _, _, _)

\* after up(file) completed in free tier mode: this.executedMigrations.add(name),
\* and executed is that same Set object
trackedInMemory(free, files, i, bad, acc) ==
  migrateFrom(free, files, i + 1, bad,
    Migrating("", acc.tables, acc.executed \cup {migrationName(files[i])},
              acc.memory \cup {migrationName(files[i])}, acc.calls,
              acc.events \o <<Event("up", files[i]), Event("record", files[i])>>))

\* after up(file) completed otherwise: the INSERT is sent, x is its outcome; the
\* local set executed is the one fetched before the loop and is not added to
recordedInTable(free, files, i, bad, acc, stmt, x) ==
  IF x.error # ""
  THEN Migrating(x.error, acc.tables, acc.executed, acc.memory,
                 Append(acc.calls, Call("query", stmt, EmptyMap)),
                 Append(acc.events, Event("up", files[i])))
  ELSE migrateFrom(free, files, i + 1, bad,
         Migrating("", x.tables, acc.executed, acc.memory,
                   Append(acc.calls, Call("query", stmt, EmptyMap)),
                   acc.events \o <<Event("up", files[i]), Event("record", files[i])>>))

\* for (const file of migrationFiles): the up of the module of file bad throws
migrateFrom(free, files, i, bad, acc) ==
  IF i > Len(files) THEN acc
  ELSE IF migrationName(files[i]) \in acc.executed
  THEN migrateFrom(free, files, i + 1, bad, acc)
  ELSE IF files[i] = bad
  THEN [acc EXCEPT !.error = "upFailed", !.events = Append(@, Event("upThrew", files[i]))]
  ELSE IF free THEN trackedInMemory(free, files, i, bad, acc)
  ELSE recordedInTable(free, files, i, bad, acc,
         InsertExecuted(acc.tables, migrationName(files[i])),
         GatewayExec(acc.tables, InsertExecuted(acc.tables, migrationName(files[i])), EmptyMap))

\* the names the executed rows g carry
ExecutedNames(g) == {g.rows[i][NameColumn] : i \in DOMAIN g.rows}

\* runMigrations once the executed set is known
migrateFetched(free, db, memory, dir, bad, cs, g) ==
  IF g.error # "" THEN Migrating(g.error, db, {}, memory, cs, <<>>)
  ELSE migrateFrom(free, migrationFiles(dir), 1, bad,
         Migrating("", db, IF free THEN memory ELSE ExecutedNames(g), memory, cs, <<>>))

NoRows == [error |-> "", rows |-> <<>>]

migrateWithTable(free, db, memory, dir, bad) ==
  IF free THEN migrateFetched(free, db, memory, dir, bad, <<>>, NoRows)
  ELSE migrateFetched(free, db, memory, dir, bad,
         <<Call("query", SelectExecuted, EmptyMap)>>,
         GatewayQuery(db, SelectExecuted, EmptyMap))

\* BigQueryORM.runMigrations(migrationsPath), dir being the files of the path
runMigrations(free, db, memory, dir, bad) ==
  migrateWithTable(free, WithMetaTable(free, db), memory, dir, bad)

Dirs ==
  {{File(b, "ts") : b \in S} : S \in SUBSET (1..MaxFiles)}
  \cup {{File(1, "js"), File(1, "ts")},
        {File(1, "d.ts"), File(1, "js"), File(MaxFiles, "md"), File(MaxFiles, "js")}}

MigrateInput(dir, bad) == [dir |-> dir, bad |-> bad]

\* no file: the up of every module completes
NoFile == File(0, "")

InitMigrate ==
  /\ rev \in Revisions
  /\ freeTierMode \in BOOLEAN
  /\ models = InitModels
  /\ executedMigrations = {}
  /\ migrationLog = <<>>
  /\ registered = <<>>
  /\ associations = EmptyMap
  /\ attributes = [e \in Entities |-> InitAttributes(e)]
  /\ tables = EmptyTables
  /\ calls = <<>>
  /\ last = Idle
  /\ running = NoneRunning

Migrated(dir, bad, w) ==
  /\ last.op = "idle"
  /\ Len(migrationLog) < MaxRuns
  /\ tables' = w.tables
  /\ executedMigrations' = w.memory
  /\ calls' = w.calls
  /\ migrationLog' = Append(migrationLog, [error |-> w.error, dir |-> dir, events |-> w.events])
  /\ last' = Outcome("runMigrations", "", MigrateInput(dir, bad), w.error, w.events)
  /\ UNCHANGED <<running, rev, freeTierMode, models, associations, registered, attributes>>

\* orm.runMigrations(path); bad: the file whose up rejects, if any
RunMigrations ==
  \E dir \in Dirs, bad \in {NoFile} \cup {File(b, x) : b \in 1..MaxFiles, x \in {"js", "ts"}} :
    Migrated(dir, bad, runMigrations(freeTierMode, tables, executedMigrations, dir, bad))

NextMigrate == RunMigrations \/ Settle

SpecMigrate == InitMigrate /\ [][NextMigrate]_vars

(***************************************************************************)
(* Claims about migrations (SpecMigrate).                                  *)
(***************************************************************************)
\* the completed ups of call k, as the files they belong to, in order
UpsOf(k) ==
  LET ev == SelectSeq(migrationLog[k].events, LAMBDA x : x.kind = "up")
  IN [i \in DOMAIN ev |-> ev[i].file]

\* how often the up of the migration named n completed, over all calls
UpCount(n) ==
  Len(SelectSeq(Flatten([k \in DOMAIN migrationLog |-> UpsOf(k)]),
                LAMBDA f : migrationName(f) = n))

\* the names recorded as executed: in memory or in the migrations table
Recorded ==
  IF freeTierMode THEN executedMigrations
  ELSE IF MigrationsTable \in DOMAIN tables
  THEN {tables[MigrationsTable].rows[i][NameColumn] : i \in DOMAIN tables[MigrationsTable].rows}
  ELSE {}

\* C15 (first part): over the calls made so far the up of each migration
\* completed at most once.
C15_UpAtMostOnce == \A n \in 1..MaxFiles : UpCount(n) <= 1

\* C15 (rest): in every call the ups ran in ascending file-name order, a
\* migration is recorded only after its up completed, and a call that follows
\* a completed call over the same directory runs no up.
C15_OrderedRecordedIdempotent ==
  /\ \A k \in DOMAIN migrationLog :
       /\ \A i, j \in DOMAIN UpsOf(k) : i < j => FileBefore(UpsOf(k)[i], UpsOf(k)[j])
       /\ \A p \in DOMAIN migrationLog[k].events :
            migrationLog[k].events[p].kind = "record" =>
              \E q \in 1..(p - 1) :
                migrationLog[k].events[q] = Event("up", migrationLog[k].events[p].file)
  /\ \A n \in Recorded : UpCount(n) >= 1
  /\ \A k \in DOMAIN migrationLog :
       (k > 1 /\ migrationLog[k - 1].error = "" /\ migrationLog[k - 1].dir = migrationLog[k].dir)
         => UpsOf(k) = <<>>

\* C15: both parts
C15_MigrationsRunOnce == C15_UpAtMostOnce /\ C15_OrderedRecordedIdempotent

(***************************************************************************)
(* Claims about the errors of update and destroy (SpecWrite).              *)
(***************************************************************************)
\* the last operation was an update or a destroy whose job reached the warehouse
JobOfUpdateOrDestroy == last.op \in {"update", "destroy"} /\ calls # <<>>

\* the error the warehouse raised for that job; a failed job leaves the
\* tables as they were
RawJobError ==
  GatewayJob(tables, calls[1].sql, calls[1].params, last.input.fault).error

\* C16 (first part): when the job of an update or a destroy fails on rows in
\* the streaming buffer, the caller gets an error of its own, distinct from
\* the raw warehouse error.
C16_StreamingConflictDistinct ==
  (JobOfUpdateOrDestroy /\ last.input.fault = StreamingBufferError)
    => last.error \notin {"", StreamingBufferError}

\* C16 (second part): every other error of the job reaches the caller unchanged.
C16_OtherErrorsUnchanged ==
  (JobOfUpdateOrDestroy /\ last.input.fault # StreamingBufferError)
    => (last.error # "" => last.error = RawJobError)
       /\ (last.input.fault # NoFault => last.error = last.input.fault)

\* C16: a streaming-buffer conflict of update or destroy surfaces as a
\* distinct retryable error, every other warehouse error unchanged.
C16_StreamingBufferRetryable == C16_StreamingConflictDistinct /\ C16_OtherErrorsUnchanged

(***************************************************************************)
(* Claims about array values and parameter indexes (SpecWhere).            *)
(***************************************************************************)
\* the index at which element i of an and/or array is compiled: the start
\* index for the first element, the nextIndex of the element before it for
\* every other
RECURSIVE StartOf(_, _, _)
StartOf(subs, i, s) ==
  IF i = 1 THEN s
  ELSE buildWhereClause(Where(subs[i - 1]), StartOf(subs, i - 1, s)).nextIndex

\* element i of an and/or array compiled as a filter tree
Element(subs, i, s) == buildWhereClause(Where(subs[i]), StartOf(subs, i, s))

Parenthesised(clause) == <<Kw("(")>> \o clause \o <<Kw(")")>>

\* the result for { and/or: [t1, ..] } is ( t1 ) AND/OR ( t2 ) .. in array
\* order, with the parameters of every element
CombDispatched(e, s, r) ==
  /\ r.clause =
       JoinWith([i \in DOMAIN e.subs |-> Parenthesised(Element(e.subs, i, s).clause)],
                <<Kw(IF e.key = "and" THEN "AND" ELSE "OR")>>)
  /\ \A i \in DOMAIN e.subs : \A n \in DOMAIN Element(e.subs, i, s).params :
       n \in DOMAIN r.params /\ r.params[n] = Element(e.subs, i, s).params[n]

\* the result for { key: [v1, ..] } is `key` IN (@p, ..), one placeholder per
\* element, placeholder i bound to element i
InDispatched(e, r) ==
  /\ Len(r.clause) = 1
  /\ r.clause[1].k = "cond" /\ r.clause[1].col = e.key /\ r.clause[1].op = "IN"
  /\ Len(r.clause[1].ps) = Len(e.vs)
  /\ DOMAIN r.params = {r.clause[1].ps[i] : i \in DOMAIN e.vs}
  /\ Cardinality(DOMAIN r.params) = Len(e.vs)
  /\ \A i \in DOMAIN e.vs : r.params[r.clause[1].ps[i]] = e.vs[i]

NoFilters == {NoWhere, Where(<<>>)}

UnfilteredIncludes ==
  {<<>>}
  \cup {<<Include("Order", <<"orders">>, w, req, NoAttrs)>> : w \in NoFilters, req \in BOOLEAN}

UnfilteredFinds ==
  {FindOptions(NoAttrs, w, inc, 0, 0, FALSE, FALSE) :
     w \in NoFilters, inc \in UnfilteredIncludes}

InitUnfiltered ==
  /\ rev \in Revisions
  /\ freeTierMode = FALSE
  /\ models = InitModels
  /\ executedMigrations = {}
  /\ migrationLog = <<>>
  /\ registered = FixedRegs
  /\ associations = RegisterAll(EmptyMap, FixedRegs)
  /\ attributes = BackfillAll([e \in Entities |-> InitAttributes(e)], FixedRegs)
  /\ tables \in Warehouses
  /\ calls = <<>>
  /\ last = Idle
  /\ running = NoneRunning

BuildUnfiltered ==
  \E w \in NoFilters, s \in 0..MaxStart :
    /\ last.op = "idle"
    /\ last' = Outcome("buildWhereClause", "", BuildInput(w, s), "", buildWhereClause(w, s))
    /\ UNCHANGED <<running, rev, freeTierMode, models, executedMigrations, migrationLog,
                 associations, registered, attributes, tables, calls>>

FindAllUnfiltered == \E o \in UnfilteredFinds : FindAll("User", o)
FindOneUnfiltered == \E o \in UnfilteredFinds : FindOne("User", o)
CountUnfiltered == \E o \in UnfilteredFinds : Count("User", o)
FindAndCountAllUnfiltered == \E o \in UnfilteredFinds : FindAndCountAll("User", o)

UpdateUnfiltered ==
  \E w \in NoFilters :
    Apply("update", "User", WriteInput((Level :> MaxValue), <<>>, UNDEFINED, w, NoFault),
          update("User", (Level :> MaxValue), w, NoFault))

DestroyUnfiltered ==
  \E w \in NoFilters :
    Apply("destroy", "User", WriteInput(EmptyMap, <<>>, UNDEFINED, w, NoFault),
          destroy("User", w, NoFault))

IncrementUnfiltered ==
  \E w \in NoFilters :
    Apply("increment", "User", WriteInput(EmptyMap, <<Level>>, UNDEFINED, w, NoFault),
          increment("User", <<Level>>, UNDEFINED, w, NoFault))

NextUnfiltered ==
  \/ BuildUnfiltered
  \/ FindAllUnfiltered \/ FindOneUnfiltered \/ CountUnfiltered \/ FindAndCountAllUnfiltered
  \/ UpdateUnfiltered \/ DestroyUnfiltered \/ IncrementUnfiltered
  \/ Settle

SpecUnfiltered == InitUnfiltered /\ [][NextUnfiltered]_vars

(***************************************************************************)
(* Claims about requests without a constraint (SpecUnfiltered).            *)
(***************************************************************************)
\* the WHERE texts of the SELECTs sent to the warehouse by the last operation
SentWheres ==
  Flatten([i \in DOMAIN calls |->
             [k \in DOMAIN SubQueries(calls[i].sql) |-> SubQueries(calls[i].sql)[k].where]])

\* C18 (compiler): an absent or empty filter compiles to the empty fragment
\* and an empty parameter map.
C18_EmptyFragment ==
  last.op = "buildWhereClause"
    => last.result.clause = <<>> /\ last.result.params = EmptyMap

\* C18 (find): a find request without a constraint sends no WHERE clause and
\* does not fail.
C18_FindWithoutWhere ==
  last.op \in FindOps
    => last.error = "" /\ \A i \in DOMAIN SentWheres : SentWheres[i] = <<>>

\* C18 (write): update, destroy and increment without a constraint send WHERE
\* TRUE, do not fail and affect every row of the table.
C18_WriteWhereTrue ==
  last.op \in {"update", "destroy", "increment"}
    => /\ last.error = ""
       /\ Len(calls) = 1 /\ calls[1].sql.where = <<Kw("TRUE")>>
       /\ last.op = "destroy" => tables[UserTable].rows = <<>>
       /\ last.op # "destroy" => last.result = <<Len(tables[UserTable].rows)>>
       /\ last.op = "update" =>
            \A i \in DOMAIN tables[UserTable].rows : tables[UserTable].rows[i][Level] = MaxValue

\* C18: an absent or empty filter means no constraint.
C18_NoFilterNoConstraint ==
  C18_EmptyFragment /\ C18_FindWithoutWhere /\ C18_WriteWhereTrue

\* how often the name n stands as a placeholder in a fragment
Occurrences(clause, n) == Len(SelectSeq(Placeholders(clause), LAMBDA x : x = n))

\* C19: buildWhereClause called with start index s returns nextIndex = s +
\* the number of generated parameters, the parameter names are exactly
\* param<s> .. param<nextIndex - 1>, and every name stands in exactly one
\* placeholder of the fragment, through nested and/or arrays and sibling keys.
C19_IndexThreaded ==
  last.op = "buildWhereClause" =>
    LET s == last.input.paramIndex
        r == last.result
    IN /\ r.nextIndex = s + Cardinality(DOMAIN r.params)
       /\ DOMAIN r.params = s..(r.nextIndex - 1)
       /\ Len(Placeholders(r.clause)) = Cardinality(DOMAIN r.params)
       /\ \A n \in DOMAIN r.params : Occurrences(r.clause, n) = 1

\* { and: [{ age: [1, MaxValue] }, { or: [{ age: 1 }, { name: 1 }] }], name: 1 }
\* compiled from MaxStart: five parameters
C19_Witness ==
  /\ last.op = "buildWhereClause"
  /\ last.input.paramIndex = MaxStart
  /\ last.input.where.tree =
       <<Comb("and", <<<<Arr("age", <<1, MaxValue>>)>>,
                       <<Comb("or", <<<<Scalar("age", 1)>>, <<Scalar("name", 1)>>>>)>>>>),
         Scalar("name", 1)>>
  /\ last.result.nextIndex = MaxStart + 5

(***************************************************************************)
(* Find requests with includes of every association kind:                  *)
(* User.hasMany(Order), User.hasOne(Order, as first),                      *)
(* Order.belongsTo(User), User.belongsToMany(Tag, through UserTag).        *)
(***************************************************************************)
First == <<"first">>

JoinRegs ==
  <<Reg("hasMany", "User", "Order", "", <<>>),
    Reg("hasOne", "User", "Order", "", First),
    Reg("belongsTo", "Order", "User", "", <<>>),
    WithOtherKey(Reg("belongsToMany", "User", "Tag", "UserTag", <<>>), <<"tagId">>)>>

\* the includes a find on e may name, each required or not
JoinIncludes(e) ==
  IF e = "User"
  THEN {Include(m[1], m[2], NoWhere, req, NoAttrs) :
          m \in {<<"Order", <<"orders">>>>, <<"Order", First>>, <<"Tag", <<"tags">>>>},
          req \in BOOLEAN}
  ELSE {Include("User", <<"user">>, NoWhere, req, NoAttrs) : req \in BOOLEAN}

JoinIncludeLists(e) ==
  {<<i>> : i \in JoinIncludes(e)}
  \cup {<<i, j>> : i, j \in {x \in JoinIncludes(e) : x.model = "Tag" \/ x.as = First}}

InitJoin ==
  /\ rev \in Revisions
  /\ freeTierMode = FALSE
  /\ models = InitModels
  /\ executedMigrations = {}
  /\ migrationLog = <<>>
  /\ registered = JoinRegs
  /\ associations = RegisterAll(EmptyMap, JoinRegs)
  /\ attributes = BackfillAll([e \in Entities |-> InitAttributes(e)], JoinRegs)
  /\ tables \in Warehouses
  /\ calls = <<>>
  /\ last = Idle
  /\ running = NoneRunning

FindAllJoined ==
  \E e \in {"User", "Order"} : \E incs \in JoinIncludeLists(e) : FindAll(e, PlainFind(incs))

FindAndCountAllJoined ==
  \E e \in {"User", "Order"} : \E incs \in JoinIncludeLists(e) :
    FindAndCountAll(e, PlainFind(incs))

NextJoin == FindAllJoined \/ FindAndCountAllJoined \/ Settle

SpecJoin == InitJoin /\ [][NextJoin]_vars

(***************************************************************************)
(* Claims about join predicates (SpecJoin).                                *)
(***************************************************************************)
\* the SELECT that returns the rows: data_query of a WITH, or the statement
DataQuery(stmt) == IF stmt.kind = "WITH" THEN stmt.data ELSE stmt

InnerOrLeft(inc) == IF inc.required THEN "INNER JOIN" ELSE "LEFT OUTER JOIN"

\* the joins the association kind fixes for the include inc of a find on e
JoinsByKind(e, inc, assoc) ==
  LET main == TableName(e)
      as == IncAlias(inc)
      junction == as \o <<"through">>
  IN CASE assoc.type = "belongsTo" ->
            <<Join(InnerOrLeft(inc), TableName(inc.model), as,
                   main, assoc.foreignKey, as, PrimaryKey(inc.model))>>
       [] assoc.type \in {"hasOne", "hasMany"} ->
            <<Join(InnerOrLeft(inc), TableName(inc.model), as,
                   main, PrimaryKey(e), as, assoc.foreignKey)>>
       [] assoc.type = "belongsToMany" ->
            <<Join(InnerOrLeft(inc), TableName(assoc.through), junction,
                   main, PrimaryKey(e), junction, assoc.foreignKey),
              Join(InnerOrLeft(inc), TableName(inc.model), as,
                   junction, assoc.otherKey, as, PrimaryKey(inc.model))>>

\* C20: the joins of a find are, include by include, the joins fixed by the
\* association kind: belongsTo on main.foreignKey = include.primaryKey, hasOne
\* and hasMany on main.primaryKey = include.foreignKey, belongsToMany the
\* junction under <alias>_through on main.primaryKey = junction.foreignKey and
\* then the target on junction.otherKey = target.primaryKey; INNER when the
\* include is required and LEFT OUTER otherwise.
C20_JoinPredicates ==
  (last.op \in FindOps /\ calls # <<>>) =>
    DataQuery(calls[1].sql).joins =
      Flatten([i \in DOMAIN last.input.include |->
                 JoinsByKind(last.entity, last.input.include[i],
                             FindAssoc(last.entity, last.input.include[i]).assoc)])

(***************************************************************************)
(* Find requests on entities whose names carry underscores: User may have  *)
(* the attribute order_id, and User.hasOne(Order, as user_order).          *)
(***************************************************************************)
OrderUnderscoreId == <<"order", "id">>
UserOrder == <<"user", "order">>

ColumnRegs ==
  <<Reg("hasMany", "User", "Order", "", <<>>),
    Reg("hasOne", "User", "Order", "", UserOrder)>>

\* the attributes User was defined with: with or without order_id
UserAttributeInputs ==
  {InitAttributes("User"),
   InitAttributes("User") \o <<Attr(OrderUnderscoreId, TRUE, UNDEFINED, FALSE)>>}

\* the warehouse whose user table has every attribute of User as a column
WithUserColumns(db, attrs) ==
  LET extra == {attrs[i].name : i \in DOMAIN attrs} \ db[TableName("User")].cols
  IN [db EXCEPT ![TableName("User")] =
        Table(@.cols \cup extra,
              [i \in DOMAIN @.rows |-> @.rows[i] @@ [c \in extra |-> 1]])]

ColumnIncludeLists ==
  {<<>>,
   <<Include("Order", <<"orders">>, NoWhere, FALSE, NoAttrs)>>,
   <<Include("Order", UserOrder, NoWhere, FALSE, NoAttrs)>>}

InitColumnNames ==
  \E ua \in UserAttributeInputs, db \in Warehouses :
    /\ rev \in Revisions
    /\ freeTierMode = FALSE
    /\ models = InitModels
    /\ executedMigrations = {}
    /\ migrationLog = <<>>
    /\ registered = ColumnRegs
    /\ associations = RegisterAll(EmptyMap, ColumnRegs)
    /\ attributes = [e \in Entities |-> IF e = "User" THEN ua ELSE InitAttributes(e)]
    /\ tables = WithUserColumns(db, ua)
    /\ calls = <<>>
    /\ last = Idle
    /\ running = NoneRunning

FindAllColumns == \E incs \in ColumnIncludeLists : FindAll("User", PlainFind(incs))

FindAndCountAllColumns ==
  \E incs \in ColumnIncludeLists : FindAndCountAll("User", PlainFind(incs))

NextColumns == FindAllColumns \/ FindAndCountAllColumns \/ Settle

SpecColumns == InitColumnNames /\ [][NextColumns]_vars

(***************************************************************************)
(* Claims about output-column names (SpecColumns).                         *)
(***************************************************************************)
\* C21: in every compiled find, select items of distinct (alias, attribute)
\* pairs have distinct output-column names, and the request is answered.
C21_ColumnNamesInvertible ==
  (last.op \in FindOps /\ calls # <<>>) =>
    LET select == DataQuery(calls[1].sql).select
    IN /\ \A i, j \in DOMAIN select :
            (select[i].q # select[j].q \/ select[i].col # select[j].col)
              => select[i].as # select[j].as
       /\ last.error = ""

(***************************************************************************)
(* Reassembly with includes of every association kind (the registrations   *)
(* of JoinRegs) and an include whose alias nobody registered; rows may     *)
(* carry a null parent key or lack the parent key column.                  *)
(***************************************************************************)
Ghost == <<"ghost">>

\* one joined row of a find on User: user uid named name, with order oid
\* under orders, order fid under first and tag tid under tags
JoinedUserRow(uid, name, oid, fid, tid) ==
  (<<"user", "id">> :> uid) @@ (<<"user", "name">> :> name) @@ (<<"user", "level">> :> 1)
  @@ (<<"orders", "id">> :> oid) @@ (<<"orders", "userId">> :> uid)
  @@ (<<"orders", "amount">> :> oid)
  @@ (<<"first", "id">> :> fid) @@ (<<"first", "userId">> :> uid)
  @@ (<<"first", "amount">> :> fid)
  @@ (<<"tags", "id">> :> tid) @@ (<<"tags", "label">> :> tid)
  @@ (<<"ghost", "id">> :> 1) @@ (<<"ghost", "label">> :> 1)

\* row without the column key
Without(row, key) == [k \in DOMAIN row \ {key} |-> row[k]]

JoinedUserRows ==
  {JoinedUserRow(NULL, 1, 1, 1, 1),
   JoinedUserRow(1, 1, NULL, NULL, NULL),
   JoinedUserRow(1, 1, 1, 1, 1),
   JoinedUserRow(1, 2, 2, 2, NULL),
   JoinedUserRow(1, 1, 1, NULL, 2),
   JoinedUserRow(2, 2, NULL, NULL, NULL),
   JoinedUserRow(2, 2, 1, 2, 1),
   Without(JoinedUserRow(1, 1, 1, 1, 1), <<"user", "id">>)}

\* one joined row of a find on Order: order oid with its user uid
JoinedOrderRow(oid, uid, name) ==
  (<<"order", "id">> :> oid) @@ (<<"order", "userId">> :> uid) @@ (<<"order", "amount">> :> 1)
  @@ (<<"user", "id">> :> uid) @@ (<<"user", "name">> :> name) @@ (<<"user", "level">> :> 1)
  @@ (<<"ghost", "id">> :> 1) @@ (<<"ghost", "label">> :> 1)

JoinedOrderRows ==
  {JoinedOrderRow(NULL, 1, 1), JoinedOrderRow(1, NULL, 1), JoinedOrderRow(1, 1, 1),
   JoinedOrderRow(1, 2, 2), JoinedOrderRow(2, 1, 2), JoinedOrderRow(2, NULL, 1)}

GhostInclude == Include("Tag", Ghost, NoWhere, FALSE, NoAttrs)

\* the rows and the includes of a find on e
JoinedRows(e) == IF e = "User" THEN JoinedUserRows ELSE JoinedOrderRows

ReassembleIncludes(e) ==
  IF e = "User"
  THEN <<Include("Order", <<"orders">>, NoWhere, FALSE, NoAttrs),
         Include("Order", First, NoWhere, FALSE, NoAttrs),
         Include("Tag", <<"tags">>, NoWhere, FALSE, NoAttrs),
         GhostInclude>>
  ELSE <<Include("User", <<"user">>, NoWhere, FALSE, NoAttrs), GhostInclude>>

InitReassemble ==
  /\ rev \in Revisions
  /\ freeTierMode = FALSE
  /\ models = InitModels
  /\ executedMigrations = {}
  /\ migrationLog = <<>>
  /\ registered = JoinRegs
  /\ associations = RegisterAll(EmptyMap, JoinRegs)
  /\ attributes = BackfillAll([e \in Entities |-> InitAttributes(e)], JoinRegs)
  /\ tables = EmptyTables
  /\ calls = <<>>
  /\ last = Idle
  /\ running = NoneRunning

\* nestAssociations applied to the rows of a find on e
Reassemble ==
  \E e \in {"User", "Order"} : \E rows \in SeqsUpTo(JoinedRows(e), MaxNestRows) :
    /\ last.op = "idle"
    /\ last' = Outcome("nestAssociations", e, NestInput(rows, ReassembleIncludes(e)), "",
                       nestAssociations(rev, e, rows, ReassembleIncludes(e)))
    /\ UNCHANGED <<running, rev, freeTierMode, models, executedMigrations, migrationLog,
                 associations, registered, attributes, tables, calls>>

NextReassemble == Reassemble \/ Settle

SpecReassemble == InitReassemble /\ [][NextReassemble]_vars

(***************************************************************************)
(* Claims about reassembly (SpecReassemble).                               *)
(***************************************************************************)
\* the parent key the row k of the last reassembly carries
ParentKey(k) ==
  Get(last.input.rows[k], Col(TableName(last.entity), PrimaryKey(last.entity)))

\* the rows that carry a parent key no earlier row carries, in row order
FirstRows ==
  SelectSeq([k \in DOMAIN last.input.rows |-> k],
            LAMBDA k : /\ ~IsNullish(ParentKey(k))
                       /\ \A j \in 1..(k - 1) : ParentKey(j) # ParentKey(k))

\* the rows of the parent returned at position p
RowsOf(p) ==
  {k \in DOMAIN last.input.rows : ParentKey(k) = ParentKey(FirstRows[p])}

\* C22: reassembly returns one object per distinct non-null parent key, in
\* first-seen order, with the parent's fields of the first row that carries
\* the key; a row without a parent key gives neither a parent nor a child.
C22_ParentsFirstSeen ==
  last.op = "nestAssociations" =>
    /\ Len(last.result) = Len(FirstRows)
    /\ \A p \in DOMAIN last.result :
         /\ last.result[p].fields =
              [f \in Range(AttrNames(last.entity)) |->
                 Get(last.input.rows[FirstRows[p]], Col(TableName(last.entity), f))]
         /\ \A as \in DOMAIN last.result[p].slots :
              \A c \in Range(last.result[p].slots[as].items)
                       \cup (IF last.result[p].slots[as].t = "object"
                             THEN {last.result[p].slots[as].obj} ELSE {}) :
                \E k \in RowsOf(p) : \E i \in DOMAIN last.input.include :
                  /\ IncAlias(last.input.include[i]) = as
                  /\ c = ChildObject(rev, last.input.include[i], last.input.rows[k])

\* two rows of user 1 with a keyless row between them: one parent, named by
\* its first row
C22_Witness ==
  /\ last.op = "nestAssociations" /\ last.entity = "User"
  /\ last.input.rows = <<JoinedUserRow(1, 2, 2, 2, NULL), JoinedUserRow(NULL, 1, 1, 1, 1),
                         JoinedUserRow(1, 1, 1, 1, 1)>>
  /\ Len(last.result) = 1
  /\ last.result[1].fields[<<"name">>] = 2

\* the rows of the parent at position p that carry a child key under inc
ChildRows(p, inc) ==
  {k \in RowsOf(p) :
     ~IsNullish(Get(last.input.rows[k], Col(IncAlias(inc), PrimaryKey(inc.model))))}

LastOf(S) == CHOOSE k \in S : \A j \in S : j <= k

\* the slot of the parent at position p for the include inc is as its
\* association kind says
SlotByKind(p, inc) ==
  LET as == IncAlias(inc)
      f == FindAssocByAlias(last.entity, as)
      slots == last.result[p].slots
  IN IF ~f.found THEN as \notin DOMAIN slots
     ELSE /\ as \in DOMAIN slots
          /\ IF f.assoc.type \in {"hasMany", "belongsToMany"}
             THEN /\ slots[as].t = "array"
                  /\ (slots[as].items = <<>>) <=> (ChildRows(p, inc) = {})
             ELSE IF ChildRows(p, inc) = {} THEN slots[as] = NullSlot
             ELSE slots[as] =
                    ObjectSlot(ChildObject(rev, inc, last.input.rows[LastOf(ChildRows(p, inc))]))

\* C23: after reassembly every parent has, for each include with a
\* registered alias, a slot under that alias: an array for hasMany and
\* belongsToMany, empty when no row of the parent carried a child key; for
\* hasOne and belongsTo null, or the child of the parent's last row with a
\* child key; an include with an unregistered alias adds no slot.
C23_SlotsByKind ==
  last.op = "nestAssociations" =>
    \A p \in DOMAIN last.result : \A i \in DOMAIN last.input.include :
      SlotByKind(p, last.input.include[i])

\* user 1 with orders 1 and then 2 under first, one tag, and an include ghost
\* nobody registered: first holds order 2, tags one tag, no slot ghost
C23_Witness ==
  /\ last.op = "nestAssociations" /\ last.entity = "User"
  /\ last.input.rows = <<JoinedUserRow(1, 1, 1, 1, 1), JoinedUserRow(1, 2, 2, 2, NULL)>>
  /\ Len(last.result) = 1
  /\ last.result[1].slots[First].t = "object"
  /\ last.result[1].slots[First].obj[<<"id">>] = 2
  /\ Len(last.result[1].slots[<<"tags">>].items) = 1
  /\ Ghost \notin DOMAIN last.result[1].slots

(***************************************************************************)
(* The attribute maps under registrations and model operations:            *)
(* registrations of every kind, with the foreign key declared at           *)
(* Model.init (Order.userId) or not (Order.tagId), interleaved with finds, *)
(* creates, updates and destroys.                                          *)
(***************************************************************************)
FrameRegs ==
  {Reg("belongsTo", "Order", t, "", as) : t \in {"User", "Tag"}, as \in {<<>>, Items}}
  \cup {Reg("hasOne", "User", "Order", "", <<>>),
        Reg("hasMany", "Tag", "Order", "", <<>>),
        WithOtherKey(Reg("belongsToMany", "User", "Tag", "UserTag", <<>>), <<"tagId">>)}

FrameIncludes ==
  {Include(m, <<>>, NoWhere, FALSE, NoAttrs) : m \in {"User", "Tag"}}

InitFrame ==
  /\ rev \in Revisions
  /\ freeTierMode = FALSE
  /\ models = InitModels
  /\ executedMigrations = {}
  /\ migrationLog = <<>>
  /\ associations = EmptyMap
  /\ registered = <<>>
  /\ attributes = [e \in Entities |-> InitAttributes(e)]
  /\ tables = [EmptyTables EXCEPT ![UserTable].rows = <<UserRow(1)>>,
                                  ![TableName("Order")].rows = <<OrderRow(1)>>]
  /\ calls = <<>>
  /\ last = Idle
  /\ running = NoneRunning

RegisterFrame == \E r \in FrameRegs : Register(r)

FindAllFrame == \E inc \in FrameIncludes : FindAll("Order", PlainFind(<<inc>>))

FindOneFrame == \E inc \in FrameIncludes : FindOne("Order", PlainFind(<<inc>>))

OrderRecords == {Row2(Id, 2, <<"userId">>, 1), Row2(Id, 2, <<"tagId">>, 1)}

CreateOrder == \E data \in OrderRecords : Apply("create", "Order", data, create(rev, "Order", data))

UpdateOrder ==
  Apply("update", "Order", WriteInput((<<"amount">> :> MaxValue), <<>>, UNDEFINED, NoWhere, NoFault),
        update("Order", (<<"amount">> :> MaxValue), NoWhere, NoFault))

DestroyOrder ==
  Apply("destroy", "Order", WriteInput(EmptyMap, <<>>, UNDEFINED, NoWhere, NoFault),
        destroy("Order", NoWhere, NoFault))

NextFrame ==
  \/ RegisterFrame \/ FindAllFrame \/ FindOneFrame
  \/ CreateOrder \/ UpdateOrder \/ DestroyOrder
  \/ Settle

SpecFrame == InitFrame /\ [][NextFrame]_vars

\* the descriptor an attribute map holds under a name, UNDEFINED when none
Descriptor(attrs, name) ==
  IF HasAttr(attrs, name)
  THEN LET i == CHOOSE i \in DOMAIN attrs : attrs[i].name = name IN attrs[i]
  ELSE UNDEFINED

NamesIn(attrs) == {attrs[i].name : i \in DOMAIN attrs}

\* the registration call a step makes
Registering(r) == registered' = Append(registered, r)

\* C24: a belongsTo registration adds the foreign-key attribute, a nullable
\* INT64, to the source entity exactly when the source has no attribute of
\* that name, leaves an existing descriptor of that name as it is and changes
\* no other attribute of any entity; hasOne, hasMany and belongsToMany
\* registrations and every find, create, update and destroy step leave every
\* entity's attribute map unchanged.
C24_AttributeFrame ==
  [][/\ \A r \in FrameRegs :
          Registering(r) =>
            LET fk == AssocOfReg(r).foreignKey IN
            IF r.method = "belongsTo"
            THEN /\ \A e \in Entities :
                      NamesIn(attributes'[e]) =
                        NamesIn(attributes[e]) \cup (IF e = r.src THEN {fk} ELSE {})
                 /\ \A e \in Entities : \A n \in NamesIn(attributes[e]) :
                      Descriptor(attributes'[e], n) = Descriptor(attributes[e], n)
                 /\ ~HasAttr(attributes[r.src], fk) =>
                      LET d == Descriptor(attributes'[r.src], fk) IN
                      /\ d.type = "INT64"
                      /\ d.allowNull = TRUE
                      /\ d.primaryKey = FALSE
                      /\ d.defaultValue = UNDEFINED
                 /\ \A e \in Entities : Len(attributes'[e]) = Cardinality(NamesIn(attributes'[e]))
            ELSE attributes' = attributes
     /\ registered' = registered => attributes' = attributes]_vars

\* an order was created after Order.belongsTo(Tag) added Order.tagId, while
\* the declared Order.userId is still the descriptor given at Model.init
C24_Witness ==
  /\ last.op = "create"
  /\ last.entity = "Order"
  /\ \E i \in DOMAIN registered :
       registered[i].method = "belongsTo" /\ registered[i].target = "Tag"
  /\ \E i \in DOMAIN registered :
       registered[i].method = "belongsTo" /\ registered[i].target = "User"
  /\ Descriptor(attributes["Order"], <<"tagId">>) = INTEGER(<<"tagId">>)
  /\ Descriptor(attributes["Order"], <<"userId">>) = InitAttributes("Order")[2]

(***************************************************************************)
(* Overlapping runMigrations calls on one ORM instance.  A call runs from  *)
(* one await to the next without interruption and another call may run in  *)
(* between; running[k] is the await call k is suspended on.  The dataset   *)
(* and, outside free tier mode, the migrations table exist.                *)
(***************************************************************************)
MaxOverlap == 2

OverlapDir == {File(b, "ts") : b \in 1..MaxFiles}

\* a suspended call: files is the sorted listing, i the file of the loop, executed
\* the Set fetched before the loop (unused in free tier mode, where executed
\* is the Set object this.executedMigrations)
Suspended(at, files, i, executed) ==
  [i |-> i, at |-> at, executed |-> executed, files |-> files]

\* a membership check that also counts the migrations whose up is in flight
ExecutedHas_inflight(p, memory, name) ==
  \/ IF freeTierMode THEN name \in memory ELSE name \in p.executed
  \/ \E j \in DOMAIN running :
       running[j].at \in {"up", "insert"} /\ migrationName(running[j].files[running[j].i]) = name

\* executed.has(migrationName) as the call sees it now
ExecutedHas(p, memory, name) ==
  IF freeTierMode THEN name \in memory ELSE name \in p.executed

\* for (const file of migrationFiles) { if (executed.has(name)) continue; ... }:
\* the index of the first file from i on that the membership check lets through
RECURSIVE firstPending(_, _, _)
firstPending(p, memory, i) ==
  IF i > Len(p.files) THEN i
  ELSE IF ExecutedHas(p, memory, migrationName(p.files[i])) THEN firstPending(p, memory, i + 1)
  ELSE i

\* the loop resumed at file i: it runs to the next awaited up or to its end
resumeLoop(p, memory, i) ==
  LET j == firstPending(p, memory, i)
  IN IF j > Len(p.files) THEN [p EXCEPT !.at = "done", !.i = j]
     ELSE [p EXCEPT !.at = "up", !.i = j]

Logged(k, kind, f) ==
  [migrationLog EXCEPT ![k].events = Append(@, Event(kind, f))]

\* the events a resumed loop adds: the up it starts, if any
Starting(log, k, p) ==
  IF p.at = "up" THEN [log EXCEPT ![k].events = Append(@, Event("upStarted", p.files[p.i]))]
  ELSE log

InitOverlap ==
  /\ rev \in Revisions
  /\ freeTierMode \in BOOLEAN
  /\ models = InitModels
  /\ executedMigrations = {}
  /\ migrationLog = <<>>
  /\ registered = <<>>
  /\ associations = EmptyMap
  /\ attributes = [e \in Entities |-> InitAttributes(e)]
  /\ tables = WithMetaTable(freeTierMode, EmptyTables)
  /\ calls = <<>>
  /\ last = Idle
  /\ running = NoneRunning

\* orm.runMigrations(path) is called: it runs to await metaTable.exists()
StartRunMigrations ==
  /\ Len(migrationLog) < MaxOverlap
  /\ migrationLog' = Append(migrationLog, [error |-> "", dir |-> OverlapDir, events |-> <<>>])
  /\ running' = (Len(migrationLog) + 1 :> Suspended("exists", migrationFiles(OverlapDir), 1, {}))
                  @@ running
  /\ UNCHANGED <<rev, freeTierMode, models, executedMigrations, associations, registered,
               attributes, tables, calls, last>>

\* metaTable.exists() resolves: free tier mode enters the loop on the shared
\* Set, otherwise the SELECT of the executed names is sent
TableExists(k) ==
  /\ k \in DOMAIN running
  /\ running[k].at = "exists"
  /\ IF freeTierMode
     THEN LET p == resumeLoop(running[k], executedMigrations, 1)
          IN /\ running' = [running EXCEPT ![k] = p]
             /\ migrationLog' = Starting(migrationLog, k, p)
             /\ calls' = calls
     ELSE /\ running' = [running EXCEPT ![k].at = "select"]
          /\ calls' = Append(calls, Call("query", SelectExecuted, EmptyMap))
          /\ migrationLog' = migrationLog
  /\ UNCHANGED <<rev, freeTierMode, models, executedMigrations, associations, registered,
               attributes, tables, last>>

\* the SELECT resolves with the rows the table holds: executed = new Set(names),
\* and the loop is entered
Fetched(k) ==
  /\ k \in DOMAIN running
  /\ running[k].at = "select"
  /\ LET g == GatewayQuery(tables, SelectExecuted, EmptyMap)
         p == resumeLoop([running[k] EXCEPT !.executed = ExecutedNames(g)], executedMigrations, 1)
     IN /\ running' = [running EXCEPT ![k] = p]
        /\ migrationLog' = Starting(migrationLog, k, p)
  /\ UNCHANGED <<rev, freeTierMode, models, executedMigrations, associations, registered,
               attributes, tables, calls, last>>

\* the awaited up resolves: free tier mode adds the name to the shared Set and
\* the loop goes on, otherwise the INSERT is sent
UpResolved(k) ==
  /\ k \in DOMAIN running
  /\ running[k].at = "up"
  /\ LET f == running[k].files[running[k].i]
         done == Logged(k, "up", f)
     IN IF freeTierMode
        THEN LET memory == executedMigrations \cup {migrationName(f)}
                 p == resumeLoop(running[k], memory, running[k].i + 1)
             IN /\ executedMigrations' = memory
                /\ running' = [running EXCEPT ![k] = p]
                /\ migrationLog' =
                     Starting([done EXCEPT ![k].events = Append(@, Event("record", f))], k, p)
                /\ calls' = calls
        ELSE /\ running' = [running EXCEPT ![k].at = "insert"]
             /\ calls' = Append(calls, Call("query", InsertExecuted(tables, migrationName(f)),
                                            EmptyMap))
             /\ migrationLog' = done
             /\ executedMigrations' = executedMigrations
  /\ UNCHANGED <<rev, freeTierMode, models, associations, registered, attributes, tables, last>>

\* the INSERT resolves: the row is in the migrations table and the loop goes on
Inserted(k) ==
  /\ k \in DOMAIN running
  /\ running[k].at = "insert"
  /\ LET f == running[k].files[running[k].i]
         x == GatewayExec(tables, InsertExecuted(tables, migrationName(f)), EmptyMap)
         p == resumeLoop(running[k], executedMigrations, running[k].i + 1)
     IN /\ x.error = ""
        /\ tables' = x.tables
        /\ running' = [running EXCEPT ![k] = p]
        /\ migrationLog' = Starting(Logged(k, "record", f), k, p)
  /\ UNCHANGED <<rev, freeTierMode, models, executedMigrations, associations, registered,
               attributes, calls, last>>

\* the promise of call k resolves and its caller goes on
Returned(k) ==
  /\ k \in DOMAIN running
  /\ running[k].at = "done"
  /\ running' = [j \in DOMAIN running \ {k} |-> running[j]]
  /\ UNCHANGED <<rev, freeTierMode, models, executedMigrations, migrationLog, associations,
               registered, attributes, tables, calls, last>>

\* the step call k takes when the await it is suspended on resolves
Resume(k) == TableExists(k) \/ Fetched(k) \/ UpResolved(k) \/ Inserted(k) \/ Returned(k)

ResumeTableExists == \E k \in 1..MaxOverlap : TableExists(k)
ResumeFetched == \E k \in 1..MaxOverlap : Fetched(k)
ResumeUpResolved == \E k \in 1..MaxOverlap : UpResolved(k)
ResumeInserted == \E k \in 1..MaxOverlap : Inserted(k)
ResumeReturned == \E k \in 1..MaxOverlap : Returned(k)

NextOverlap ==
  \/ StartRunMigrations
  \/ ResumeTableExists \/ ResumeFetched \/ ResumeUpResolved \/ ResumeInserted \/ ResumeReturned

SpecOverlap == InitOverlap /\ [][NextOverlap]_vars

(***************************************************************************)
(* Claims about overlapping runMigrations calls (SpecOverlap).             *)
(***************************************************************************)
\* the file whose up call k is suspended on
UpFileOf(k) == running[k].files[running[k].i]

\* call k enters its loop in this step
EntersLoop(k) ==
  /\ k \in DOMAIN running
  /\ running[k].at \in {"exists", "select"}
  /\ k \in DOMAIN running'
  /\ running'[k].at \in {"up", "done"}

\* the files of the listing whose names are not recorded as executed
Unrecorded(files) == {i \in DOMAIN files : migrationName(files[i]) \notin Recorded}

\* in the events of call k every record of a file follows the completion of
\* its up, and every completion follows the start of that up
UpThenRecord(k) ==
  LET ev == migrationLog[k].events IN
  \A p \in DOMAIN ev :
    /\ ev[p].kind = "record" => p > 1 /\ ev[p - 1] = Event("up", ev[p].file)
    /\ ev[p].kind = "up" => \E q \in 1..(p - 1) : ev[q] = Event("upStarted", ev[p].file)

\* C25: migration tracking has no synchronization.  No runMigrations call in
\* flight ever waits for another one: whenever the await it is suspended on
\* resolves it can go on.  A call that enters its loop tests membership
\* against the recorded names only, so it starts the up of the first file that
\* is not recorded also while another call is suspended on that same up; and
\* every call records a migration only after the awaited up resolved.
C25_NoSynchronization ==
  /\ [](\A k \in DOMAIN running : ENABLED Resume(k))
  /\ [](\A k \in DOMAIN migrationLog : UpThenRecord(k))
  /\ [][\A k \in 1..MaxOverlap :
          EntersLoop(k) =>
            LET files == running[k].files IN
            IF Unrecorded(files) = {} THEN running'[k].at = "done"
            ELSE /\ running'[k].at = "up"
                 /\ \A i \in Unrecorded(files) : running'[k].i <= i
                 /\ running'[k].i \in Unrecorded(files)]_vars

\* two calls overlapped, both found migration 1 pending and the up of
\* migration 1 completed twice
C25_Witness ==
  /\ Cardinality(DOMAIN running) = 2
  /\ UpCount(1) = 2
  /\ \A k \in DOMAIN running :
       \E p \in DOMAIN migrationLog[k].events :
         migrationLog[k].events[p] = Event("up", File(1, "ts"))

(***************************************************************************)
(* Claims about optional includes (SpecFind).                              *)
(***************************************************************************)
\* a findAll without limit and offset whose includes are all optional
IsOptionalIncludeRequest(o) ==
  /\ o.include # <<>>
  /\ \A i \in DOMAIN o.include : ~o.include[i].required
  /\ o.limit = 0 /\ o.offset = 0

ReturnedIds == {last.result[i].fields[<<"id">>] : i \in DOMAIN last.result}

\* C26: an include that is not marked required never removes a parent: every
\* row of the queried table that satisfies the top-level filter is in the
\* findAll result, also when the include carries a filter of its own that no
\* child of that parent satisfies.
C26_OptionalIncludeKeepsParents ==
  (last.op = "findAll" /\ last.error = "" /\ IsOptionalIncludeRequest(last.input)) =>
    \A i \in DOMAIN MatchingMain("User", last.input) :
      MatchingMain("User", last.input)[i][<<"id">>] \in ReturnedIds

(***************************************************************************)
(* Overlapping create and bulkCreate calls on User.  A call runs from one  *)
(* await to the next without interruption: it is suspended on the          *)
(* duplicate-key query ("check") and on table.insert ("insert"); the       *)
(* gateway answers the query from the rows the table holds at that moment. *)
(***************************************************************************)
Inserting(op, input, at, filled, keys, found, error, cs, result) ==
  [calls |-> cs, op |-> op, found |-> found, error |-> error, keys |-> keys,
   at |-> at, filled |-> filled, input |-> input, result |-> result]

InsertCall(e, p) == Call("insert", TableName(e), p.filled)

\* the call goes on to await table.insert(filledData)
toInsert(e, p) == [p EXCEPT !.at = "insert", !.calls = Append(@, InsertCall(e, p))]

\* the call threw: its promise rejects
thrown(p, error) == [p EXCEPT !.at = "done", !.error = error]

\* Model.create up to its first await
createCalled(r, e, data, f) ==
  LET p == Inserting("create", data, "check", <<f.filled>>,
                     <<Get(f.filled, PrimaryKey(e))>>, {}, "", <<>>, <<f.filled>>)
  IN IF freeTierMode THEN thrown(p, FreeTierError)
     ELSE IF f.error # "" THEN thrown(p, f.error)
     ELSE IF r = "part_000" /\ ~IsNullish(Get(f.filled, PrimaryKey(e)))
     THEN [p EXCEPT !.calls = <<DuplicateCheck(e, p.keys)>>]
     ELSE toInsert(e, p)

\* Model.bulkCreate up to its first await
bulkCreateCalled(r, e, data, options, f) ==
  LET p == Inserting("bulkCreate", BulkInput(data, options), "check", f.filled,
                     KeyValues(e, f.filled), {}, "", <<>>,
                     IF options.returning THEN f.filled ELSE <<>>)
  IN IF freeTierMode THEN thrown(p, FreeTierError)
     ELSE IF data = <<>> THEN [p EXCEPT !.at = "done", !.result = <<>>]
     ELSE IF f.error # "" THEN thrown(p, f.error)
     ELSE IF r = "part_000" /\ p.keys # <<>>
     THEN [p EXCEPT !.calls = <<DuplicateCheck(e, p.keys)>>]
     ELSE toInsert(e, p)

\* the duplicate-key query resolved with the keys existing
checkResolved(e, p, existing) ==
  IF existing.error # "" THEN thrown(p, existing.error)
  ELSE IF p.op = "create"
  THEN IF p.keys[1] \in existing.keys
       THEN thrown([p EXCEPT !.found = existing.keys], "Duplicate primary key value")
       ELSE toInsert(e, [p EXCEPT !.found = existing.keys])
  ELSE IF DuplicatesInBatch(p.keys)
  THEN thrown([p EXCEPT !.found = existing.keys], "Duplicate primary keys within batch")
  ELSE IF existing.keys # {}
  THEN thrown([p EXCEPT !.found = existing.keys],
              "Duplicate primary keys with existing records")
  ELSE toInsert(e, [p EXCEPT !.found = existing.keys])

RaceRecords == {RecA, RecB, RecNoId}

RaceBatches == {<<RecA>>, <<RecA, RecB>>, <<RecB, RecB>>}

InitRace ==
  /\ rev \in Revisions
  /\ freeTierMode = FALSE
  /\ models = InitModels
  /\ executedMigrations = {}
  /\ migrationLog = <<>>
  /\ registered = <<>>
  /\ associations = EmptyMap
  /\ attributes = [e \in Entities |-> InitAttributes(e)]
  /\ tables \in {EmptyTables, [EmptyTables EXCEPT ![UserTable].rows = <<UserRow(1)>>]}
  /\ calls = <<>>
  /\ last = Idle
  /\ running = NoneRunning

\* the identifiers free for a new call
FreeCalls == (1..MaxOverlap) \ DOMAIN running

Called(p) ==
  /\ FreeCalls # {}
  /\ running' = ((CHOOSE k \in FreeCalls : \A j \in FreeCalls : k <= j) :> p) @@ running
  /\ UNCHANGED <<rev, freeTierMode, models, executedMigrations, migrationLog, associations,
               registered, attributes, tables, calls, last>>

CreateCalled ==
  \E data \in RaceRecords :
    Called(createCalled(rev, "User", data, fillRecord(attributes["User"], 1, data, TRUE, EmptyMap)))

BulkCreateCalled ==
  \E data \in RaceBatches, o \in BulkOptionInputs :
    Called(bulkCreateCalled(rev, "User", data, o,
             fillRecords(attributes["User"], data, 1, o.validate # "false", <<>>)))

\* the duplicate-key query of call k resolves
CheckResolved ==
  \E k \in DOMAIN running :
    /\ running[k].at = "check"
    /\ running' = [running EXCEPT ![k] =
         checkResolved("User", @, runDuplicateCheck(tables, "User", @.calls[1]))]
    /\ UNCHANGED <<rev, freeTierMode, models, executedMigrations, migrationLog, associations,
                 registered, attributes, tables, calls, last>>

\* table.insert of call k resolves
InsertResolved ==
  \E k \in DOMAIN running :
    /\ running[k].at = "insert"
    /\ LET x == TableInsert(tables, UserTable, running[k].filled)
       IN /\ WithinBounds(x.tables)
          /\ tables' = x.tables
          /\ running' = [running EXCEPT ![k].at = "done", ![k].error = x.error]
    /\ UNCHANGED <<rev, freeTierMode, models, executedMigrations, migrationLog, associations,
                 registered, attributes, calls, last>>

\* the promise of call k settles and its caller goes on
InsertReturned ==
  \E k \in DOMAIN running :
    /\ running[k].at = "done"
    /\ last' = Outcome(running[k].op, "User", running[k].input, running[k].error,
                       IF running[k].error = "" THEN running[k].result ELSE <<>>)
    /\ calls' = running[k].calls
    /\ running' = [j \in DOMAIN running \ {k} |-> running[j]]
    /\ UNCHANGED <<rev, freeTierMode, models, executedMigrations, migrationLog, associations,
                 registered, attributes, tables>>

NextRace ==
  CreateCalled \/ BulkCreateCalled \/ CheckResolved \/ InsertResolved \/ InsertReturned

SpecRace == InitRace /\ [][NextRace]_vars

(***************************************************************************)
(* Claims about the duplicate-key check (SpecRace).                        *)
(***************************************************************************)
UserKeys == [i \in DOMAIN tables[UserTable].rows |-> tables[UserTable].rows[i][Id]]

\* no primary-key value is held by two rows of the table
C27_KeysUnique ==
  \A i, j \in DOMAIN UserKeys :
    (i < j /\ ~IsNullish(UserKeys[i])) => UserKeys[i] # UserKeys[j]

\* a call whose duplicate-key query found one of its keys in the table
\* rejected with a duplicate-key error and sent no insert
C27_PresentKeyRejected ==
  \A k \in DOMAIN running :
    (\E i \in DOMAIN running[k].keys : running[k].keys[i] \in running[k].found) =>
      /\ running[k].at = "done"
      /\ running[k].error \in {"Duplicate primary key value",
                               "Duplicate primary keys with existing records",
                               "Duplicate primary keys within batch"}
      /\ \A c \in DOMAIN running[k].calls : running[k].calls[c].api # "insert"

\* C27: the duplicate-primary-key check of create and bulkCreate keeps primary
\* keys unique: after any interleaving of create and bulkCreate calls on one
\* table, also of two calls with the same key whose check and insert steps
\* overlap, the table holds at most one row per primary-key value, and a call
\* whose key is already present rejects with a duplicate-key error without
\* inserting.
C27_DuplicateCheckKeepsKeysUnique == C27_KeysUnique /\ C27_PresentKeyRejected

(***************************************************************************)
(* create and bulkCreate on User with records that leave out a required    *)
(* attribute, name it with null or undefined, or carry a key that is no    *)
(* attribute.                                                              *)
(***************************************************************************)
RecNullName == (Id :> 2) @@ (Name :> NULL)
RecUndefinedName == (Id :> 2) @@ (Name :> UNDEFINED)
RecExtra == (Id :> 2) @@ (Name :> 1) @@ (Note :> 1)

RequiredRecords == {RecA, RecNoName, RecNoId, RecNullName, RecUndefinedName, RecExtra}

RequiredBatches ==
  {<<r>> : r \in RequiredRecords} \cup {<<RecA, RecNullName>>, <<RecExtra, RecA>>}

InitRequired ==
  /\ rev \in Revisions
  /\ freeTierMode = FALSE
  /\ models = InitModels
  /\ executedMigrations = {}
  /\ migrationLog = <<>>
  /\ registered = <<>>
  /\ associations = EmptyMap
  /\ attributes = [e \in Entities |-> InitAttributes(e)]
  /\ tables = EmptyTables
  /\ calls = <<>>
  /\ last = Idle
  /\ running = NoneRunning

CreateRequired ==
  \E data \in RequiredRecords : Apply("create", "User", data, create(rev, "User", data))

BulkCreateRequired ==
  \E data \in RequiredBatches, o \in BulkOptionInputs :
    Apply("bulkCreate", "User", BulkInput(data, o), bulkCreate(rev, "User", data, o))

NextRequired == CreateRequired \/ BulkCreateRequired \/ Settle

SpecRequired == InitRequired /\ [][NextRequired]_vars

\* the last operation was a create or a bulkCreate with validation on
ValidatingInsert ==
  \/ last.op = "create"
  \/ last.op = "bulkCreate" /\ last.input.options.validate # "false"

\* the records the last operation handed to table.insert
HandedRecords ==
  Flatten([c \in DOMAIN calls |-> IF calls[c].api = "insert" THEN calls[c].params ELSE <<>>])

\* C28: every record that create or bulkCreate (with validation on) hands to
\* the gateway has a value that is neither null nor undefined for every
\* attribute declared allowNull: false, whatever the input record, and its
\* keys are attributes of the entity.
C28_RequiredNeverNull ==
  ValidatingInsert =>
    \A i \in DOMAIN HandedRecords :
      /\ \A a \in DOMAIN attributes["User"] :
           attributes["User"][a].allowNull = FALSE
             => ~IsNullish(Get(HandedRecords[i], attributes["User"][a].name))
      /\ DOMAIN HandedRecords[i] \subseteq NamesIn(attributes["User"])

(***************************************************************************)
(* Claims about a rejecting up (SpecMigrate).                              *)
(***************************************************************************)
\* call k ended because the up of a migration rejected
UpRejected(k) == migrationLog[k].error = "upFailed"

\* the file whose up rejected in call k: its last event
FailedFile(k) == migrationLog[k].events[Len(migrationLog[k].events)].file

\* the names whose up completed in call k
CompletedIn(k) == {migrationName(UpsOf(k)[i]) : i \in DOMAIN UpsOf(k)}

\* the call that just ended is call k
JustEnded(k) == last.op = "runMigrations" /\ k = Len(migrationLog)

\* C29 (the failing call): when the up of a migration rejects, runMigrations
\* rejects with that error, no later up is started in that call, the failed
\* migration is not recorded as executed and the migrations completed earlier
\* in the call are.
C29_FailedNotRecorded ==
  \A k \in DOMAIN migrationLog :
    (JustEnded(k) /\ UpRejected(k)) =>
      /\ last.error = "upFailed"
      /\ \A p \in DOMAIN migrationLog[k].events :
           migrationLog[k].events[p].kind = "upThrew" => p = Len(migrationLog[k].events)
      /\ migrationName(FailedFile(k)) \notin Recorded
      /\ CompletedIn(k) \subseteq Recorded

\* C29 (the next call): a runMigrations over the same directory that follows
\* the failed call starts with the up of the failed migration.
C29_ResumesAtFailed ==
  \A k \in DOMAIN migrationLog :
    (k > 1 /\ UpRejected(k - 1) /\ migrationLog[k].dir = migrationLog[k - 1].dir) =>
      /\ migrationLog[k].events # <<>>
      /\ migrationLog[k].events[1].file = FailedFile(k - 1)

\* C29: both parts
C29_RejectedUpStopsAndResumes == C29_FailedNotRecorded /\ C29_ResumesAtFailed

(***************************************************************************)
(* The aggregate functions of Model on User.level, over tables whose       *)
(* level column holds 0, positive values and NULL.                         *)
(***************************************************************************)
AggInput(field, options) == [field |-> field, options |-> options]

\* max, min, average: rows[0]?.<x>_value || null
aggregateOrNullRan(op, e, input, c, col, g) ==
  FindStep(op, e, input, c, g.error,
           IF g.error # "" THEN <<>> ELSE <<FirstOrNull(g.rows, col)>>)

\* sum: rows[0]?.sum_value || 0
aggregateOrZeroRan(op, e, input, c, col, g) ==
  FindStep(op, e, input, c, g.error,
           IF g.error # "" THEN <<>> ELSE <<FirstOrZero(g.rows, col)>>)

MaxValueCol == <<"max", "value">>
MinValueCol == <<"min", "value">>
SumValueCol == <<"sum", "value">>
AvgValueCol == <<"avg", "value">>

aggregateCompiled(op, e, input, c, col) ==
  IF op = "sum"
  THEN aggregateOrZeroRan(op, e, input, c, col, GatewayQuery(tables, c.sql, c.params))
  ELSE aggregateOrNullRan(op, e, input, c, col, GatewayQuery(tables, c.sql, c.params))

\* Model.max(dataset, field, options)
max(e, field, options) ==
  aggregateCompiled("max", e, AggInput(field, options),
    buildSelectQuery(rev, e, options, <<SelectItem("MAX", TableName(e), field, MaxValueCol)>>),
    MaxValueCol)

\* Model.min(dataset, field, options)
min(e, field, options) ==
  aggregateCompiled("min", e, AggInput(field, options),
    buildSelectQuery(rev, e, options, <<SelectItem("MIN", TableName(e), field, MinValueCol)>>),
    MinValueCol)

\* Model.sum(dataset, field, options)
sum(e, field, options) ==
  aggregateCompiled("sum", e, AggInput(field, options),
    buildSelectQuery(rev, e, options, <<SelectItem("SUM", TableName(e), field, SumValueCol)>>),
    SumValueCol)

\* Model.average(dataset, field, options)
average(e, field, options) ==
  aggregateCompiled("average", e, AggInput(field, options),
    buildSelectQuery(rev, e, options, <<SelectItem("AVG", TableName(e), field, AvgValueCol)>>),
    AvgValueCol)

LevelValues == {NULL} \cup (0..MaxValue)

AggTables ==
  {[EmptyTables EXCEPT ![UserTable].rows =
      [i \in DOMAIN levels |-> Row3(Id, i, Name, 1, Level, levels[i])]] :
     levels \in SeqsUpTo(LevelValues, MaxAggRows)}

AggFinds ==
  {FindOptions(NoAttrs, w, <<>>, 0, 0, FALSE, FALSE) :
     w \in {NoWhere, Where(<<Scalar("id", 1)>>), Where(<<Scalar("id", MaxValue)>>)}}

InitAggregate ==
  /\ rev \in Revisions
  /\ freeTierMode = FALSE
  /\ models = InitModels
  /\ executedMigrations = {}
  /\ migrationLog = <<>>
  /\ registered = <<>>
  /\ associations = EmptyMap
  /\ attributes = [e \in Entities |-> InitAttributes(e)]
  /\ tables \in AggTables
  /\ calls = <<>>
  /\ last = Idle
  /\ running = NoneRunning

MaxLevel == \E o \in AggFinds : max("User", Level, o)
MinLevel == \E o \in AggFinds : min("User", Level, o)
SumLevel == \E o \in AggFinds : sum("User", Level, o)
AverageLevel == \E o \in AggFinds : average("User", Level, o)
CountLevel == \E o \in AggFinds : Count("User", o)

NextAggregate == MaxLevel \/ MinLevel \/ SumLevel \/ AverageLevel \/ CountLevel \/ Settle

SpecAggregate == InitAggregate /\ [][NextAggregate]_vars

(***************************************************************************)
(* Claims about the aggregate functions (SpecAggregate).                   *)
(***************************************************************************)
\* the rows the gateway reports for the statement of the last operation
ReportedRows == GatewayQuery(tables, calls[1].sql, calls[1].params).rows

\* the aggregate the gateway reports: NULL when there is no row
Reported ==
  IF ReportedRows = <<>> THEN NULL
  ELSE Get(ReportedRows[1], calls[1].sql.select[1].as)

\* C30: max, min and average return the aggregate value the gateway reports
\* whenever the result row carries a non-null aggregate, also when that value
\* is 0, and return null only when there is no row or the aggregate is null;
\* count and sum return 0 in that case.
C30_AggregateReturned ==
  (last.op \in {"max", "min", "average", "sum", "count"} /\ last.error = "" /\ calls # <<>>) =>
    IF IsNullish(Reported)
    THEN last.result = <<IF last.op \in {"sum", "count"} THEN 0 ELSE NULL>>
    ELSE last.result = <<Reported>>

====
